---- MODULE Spec2Model ----
(***************************************************************************)
(* The Harmonic Beacon: harmonic key mapping, octave borrowing and the     *)
(* polyphonic voice engine of AlterMundi/NaturalHarmony.                   *)
(*                                                                         *)
(* Units.  The program computes in floating point; the model is in fixed   *)
(* point: frequencies in milli-Hz, pitch distances in milli-cents, gains    *)
(* in 254ths, velocities sent to the synthesizer in units of 0.00001.       *)
(* Python's None is the record None; a mapping entry that the program      *)
(* stores as None (no harmonic matched) is the empty sequence.             *)
(***************************************************************************)
EXTENDS Integers, Sequences, FiniteSets, TLC

VARIABLES
    \* --- KeyMapper (key_mapper.py) ---
    km_f1,              \* KeyMapper.f1
    anchor_midi,        \* KeyMapper.anchor_midi
    tolerance_cents,    \* KeyMapper.tolerance_cents
    mapping,            \* KeyMapper._mapping
    \* --- VoiceTracker (polyphony.py) ---
    max_voices,         \* VoiceTracker.max_voices
    active_notes,       \* VoiceTracker._active_notes
    next_voice_id,      \* VoiceTracker._next_voice_id
    last_played_note,   \* VoiceTracker._last_played_note
    \* --- observation of the last operation ---
    last_op,            \* the operation last applied, with its arguments
    ret,                \* the value it returned
    \* --- history of the allocator (not program state) ---
    allocs,             \* number of identifiers allocated so far
    alloc_time,         \* identifier -> index of its latest allocation, -1 if none
    press_ids,          \* key -> identifiers of its latest first activation
    press_start,        \* key -> allocation index of the first of them, -1 if none
    \* --- HarmonicBeacon and F1Modulator (main.py) ---
    running,                    \* HarmonicBeacon.running
    run_pc,                     \* where HarmonicBeacon.run is: "start", "loop", "returned"
    f1_value,                   \* F1Modulator.value
    f1_target,                  \* F1Modulator.target
    f1_rate,                    \* F1Modulator.rate, in thousandths
    tolerance,                  \* HarmonicBeacon.tolerance
    lfo_rate,                   \* HarmonicBeacon.lfo_rate
    vibrato_mode,               \* HarmonicBeacon.vibrato_mode
    multi_harmonic_enabled,
    max_harmonics,
    primary_lock,
    harmonic_mix,               \* in 254ths (0.5 = 127)
    natural_harmonics_enabled,
    natural_harmonics_level,
    pad_mode_enabled,
    split_mode_enabled,
    toggled_harmonics,
    note_lfos,                  \* HarmonicBeacon._note_lfos
    \* --- the engine's surroundings ---
    emitted,            \* messages sent to the synthesizer by the last step
    on_ids,             \* identifiers for which the synthesizer holds a note
    held,               \* keys that are physically down
    n_note_ons,         \* events of the run so far, by kind
    n_ccs,
    n_ticks,
    \* --- MpeSender (mpe_sender.py) ---
    port_open,          \* MpeSender._port is not None
    voice_channels,     \* MpeSender._voice_channels: voice_id -> channel
    available_channels, \* MpeSender._available_channels
    channel_notes,      \* MpeSender._channel_notes: channel -> midi note
    n_mpe_offs          \* note-offs the sender has been given so far

km_vars    == <<km_f1, anchor_midi, tolerance_cents, mapping>>
vt_vars    == <<max_voices, active_notes, next_voice_id, last_played_note>>
obs_vars   == <<last_op, ret>>
hist_vars  == <<allocs, alloc_time, press_ids, press_start>>
f1_vars    == <<f1_value, f1_target, f1_rate>>
set_vars   == <<tolerance, lfo_rate, vibrato_mode, multi_harmonic_enabled, max_harmonics,
                primary_lock, harmonic_mix, natural_harmonics_enabled,
                natural_harmonics_level>>
mode_vars  == <<pad_mode_enabled, split_mode_enabled, toggled_harmonics>>
env_vars   == <<emitted, on_ids, held, n_note_ons, n_ccs, n_ticks>>
mpe_vars   == <<port_open, voice_channels, available_channels, channel_notes,
                n_mpe_offs>>
eng_vars   == <<running, run_pc, f1_vars, set_vars, mode_vars, note_lfos, env_vars,
                mpe_vars>>
vars       == <<km_vars, vt_vars, obs_vars, hist_vars, eng_vars>>

\* Python's None where the program expects an object; where it expects an
\* integer, None is NoHarmonic (a harmonic number) or NoNote (a MIDI note).
None == [none |-> TRUE]
NoHarmonic == 0
NoNote == -1

Abs(x) == IF x < 0 THEN -x ELSE x

Range(s) == {s[i] : i \in DOMAIN s}

Min(S) == CHOOSE x \in S : \A y \in S : x <= y

(***************************************************************************)
(* Harmonic arithmetic (key_mapper.py)                                     *)
(***************************************************************************)

\* 1200 * log2(n) in milli-cents, n = 1 .. 640, rounded to the nearest unit.
HCentsTable == <<
    0, 1200000, 1901955, 2400000, 2786314, 3101955, 3368826, 3600000, 3803910, 3986314,
    4151318, 4301955, 4440528, 4568826, 4688269, 4800000, 4904955, 5003910, 5097513, 5186314,
    5270781, 5351318, 5428274, 5501955, 5572627, 5640528, 5705865, 5768826, 5829577, 5888269,
    5945036, 6000000, 6053273, 6104955, 6155140, 6203910, 6251344, 6297513, 6342483, 6386314,
    6429062, 6470781, 6511518, 6551318, 6590224, 6628274, 6665507, 6701955, 6737652, 6772627,
    6806910, 6840528, 6873505, 6905865, 6937632, 6968826, 6999468, 7029577, 7059172, 7088269,
    7116885, 7145036, 7172736, 7200000, 7226841, 7253273, 7279307, 7304955, 7330229, 7355140,
    7379697, 7403910, 7427789, 7451344, 7474582, 7497513, 7520144, 7542483, 7564537, 7586314,
    7607820, 7629062, 7650047, 7670781, 7691269, 7711518, 7731532, 7751318, 7770880, 7790224,
    7809354, 7828274, 7846991, 7865507, 7883827, 7901955, 7919895, 7937652, 7955228, 7972627,
    7989854, 8006910, 8023801, 8040528, 8057095, 8073505, 8089760, 8105865, 8121821, 8137632,
    8153299, 8168826, 8184215, 8199468, 8214588, 8229577, 8244438, 8259172, 8273781, 8288269,
    8302636, 8316885, 8331017, 8345036, 8358941, 8372736, 8386422, 8400000, 8413473, 8426841,
    8440108, 8453273, 8466339, 8479307, 8492179, 8504955, 8517638, 8530229, 8542729, 8555140,
    8567462, 8579697, 8591846, 8603910, 8615891, 8627789, 8639607, 8651344, 8663002, 8674582,
    8686086, 8697513, 8708865, 8720144, 8731349, 8742483, 8753545, 8764537, 8775460, 8786314,
    8797100, 8807820, 8818474, 8829062, 8839587, 8850047, 8860445, 8870781, 8881055, 8891269,
    8901423, 8911518, 8921554, 8931532, 8941453, 8951318, 8961127, 8970880, 8980579, 8990224,
    8999815, 9009354, 9018840, 9028274, 9037658, 9046991, 9056273, 9065507, 9074691, 9083827,
    9092915, 9101955, 9110948, 9119895, 9128796, 9137652, 9146462, 9155228, 9163950, 9172627,
    9181262, 9189854, 9198403, 9206910, 9215376, 9223801, 9232184, 9240528, 9248831, 9257095,
    9265319, 9273505, 9281652, 9289760, 9297831, 9305865, 9313861, 9321821, 9329744, 9337632,
    9345483, 9353299, 9361080, 9368826, 9376537, 9384215, 9391858, 9399468, 9407045, 9414588,
    9422099, 9429577, 9437023, 9444438, 9451820, 9459172, 9466492, 9473781, 9481040, 9488269,
    9495467, 9502636, 9509775, 9516885, 9523966, 9531017, 9538041, 9545036, 9552002, 9558941,
    9565852, 9572736, 9579592, 9586422, 9593224, 9600000, 9606749, 9613473, 9620170, 9626841,
    9633487, 9640108, 9646703, 9653273, 9659818, 9666339, 9672835, 9679307, 9685755, 9692179,
    9698579, 9704955, 9711309, 9717638, 9723945, 9730229, 9736491, 9742729, 9748946, 9755140,
    9761312, 9767462, 9773590, 9779697, 9785782, 9791846, 9797888, 9803910, 9809911, 9815891,
    9821850, 9827789, 9833708, 9839607, 9845485, 9851344, 9857183, 9863002, 9868802, 9874582,
    9880344, 9886086, 9891809, 9897513, 9903199, 9908865, 9914514, 9920144, 9925756, 9931349,
    9936925, 9942483, 9948023, 9953545, 9959050, 9964537, 9970007, 9975460, 9980895, 9986314,
    9991715, 9997100, 10002468, 10007820, 10013155, 10018474, 10023776, 10029062, 10034333, 10039587,
    10044825, 10050047, 10055254, 10060445, 10065621, 10070781, 10075926, 10081055, 10086170, 10091269,
    10096354, 10101423, 10106478, 10111518, 10116543, 10121554, 10126550, 10131532, 10136500, 10141453,
    10146393, 10151318, 10156229, 10161127, 10166010, 10170880, 10175736, 10180579, 10185408, 10190224,
    10195026, 10199815, 10204591, 10209354, 10214103, 10218840, 10223564, 10228274, 10232972, 10237658,
    10242330, 10246991, 10251638, 10256273, 10260896, 10265507, 10270105, 10274691, 10279265, 10283827,
    10288377, 10292915, 10297441, 10301955, 10306458, 10310948, 10315428, 10319895, 10324352, 10328796,
    10333230, 10337652, 10342063, 10346462, 10350851, 10355228, 10359594, 10363950, 10368294, 10372627,
    10376950, 10381262, 10385563, 10389854, 10394134, 10398403, 10402662, 10406910, 10411148, 10415376,
    10419594, 10423801, 10427998, 10432184, 10436361, 10440528, 10444684, 10448831, 10452968, 10457095,
    10461212, 10465319, 10469417, 10473505, 10477583, 10481652, 10485711, 10489760, 10493801, 10497831,
    10501853, 10505865, 10509868, 10513861, 10517846, 10521821, 10525787, 10529744, 10533693, 10537632,
    10541562, 10545483, 10549395, 10553299, 10557194, 10561080, 10564957, 10568826, 10572686, 10576537,
    10580380, 10584215, 10588041, 10591858, 10595667, 10599468, 10603260, 10607045, 10610820, 10614588,
    10618348, 10622099, 10625842, 10629577, 10633304, 10637023, 10640734, 10644438, 10648133, 10651820,
    10655500, 10659172, 10662836, 10666492, 10670140, 10673781, 10677415, 10681040, 10684658, 10688269,
    10691872, 10695467, 10699055, 10702636, 10706209, 10709775, 10713334, 10716885, 10720429, 10723966,
    10727495, 10731017, 10734533, 10738041, 10741542, 10745036, 10748522, 10752002, 10755475, 10758941,
    10762400, 10765852, 10769298, 10772736, 10776167, 10779592, 10783010, 10786422, 10789826, 10793224,
    10796615, 10800000, 10803378, 10806749, 10810114, 10813473, 10816825, 10820170, 10823509, 10826841,
    10830167, 10833487, 10836801, 10840108, 10843408, 10846703, 10849991, 10853273, 10856549, 10859818,
    10863082, 10866339, 10869590, 10872835, 10876074, 10879307, 10882534, 10885755, 10888970, 10892179,
    10895382, 10898579, 10901770, 10904955, 10908135, 10911309, 10914476, 10917638, 10920795, 10923945,
    10927090, 10930229, 10933363, 10936491, 10939613, 10942729, 10945840, 10948946, 10952045, 10955140,
    10958228, 10961312, 10964389, 10967462, 10970528, 10973590, 10976646, 10979697, 10982742, 10985782,
    10988816, 10991846, 10994870, 10997888, 11000902, 11003910, 11006913, 11009911, 11012903, 11015891,
    11018873, 11021850, 11024822, 11027789, 11030751, 11033708, 11036660, 11039607, 11042549, 11045485,
    11048417, 11051344, 11054266, 11057183, 11060095, 11063002, 11065905, 11068802, 11071695, 11074582,
    11077465, 11080344, 11083217, 11086086, 11088950, 11091809, 11094663, 11097513, 11100358, 11103199,
    11106034, 11108865, 11111692, 11114514, 11117331, 11120144, 11122952, 11125756, 11128555, 11131349,
    11134139, 11136925, 11139706, 11142483, 11145255, 11148023, 11150786, 11153545, 11156299, 11159050,
    11161795, 11164537, 11167274, 11170007, 11172735, 11175460, 11178179, 11180895, 11183607, 11186314
>>

\* harmonic_to_cents(n) = 1200.0 * math.log2(n)
harmonic_to_cents(n) == HCentsTable[n]

\* MAX_FREQ_HZ = 20000.0, in milli-Hz
MAX_FREQ_HZ == 20000000

\* KeyMapper defaults and the engine's configuration
lowest_midi == 21
highest_midi == 108
MAX_HARMONIC == 4096

(***************************************************************************)
(* KeyMapper (key_mapper.py)                                               *)
(***************************************************************************)

\* Parameter values the mapper is built with in this model.
F1Values   == {32500, 54000, 65000}
Anchors    == {21, 24, 36}
Tolerances == {1000, 1385, 25000, 35000, 50000}

\* A scan that accepts a harmonic only when the key is at or above it
scan_step_one_sided(f1, key_cents, tol, n, st) ==
    IF f1 * n > MAX_FREQ_HZ THEN [st EXCEPT !.stopped = TRUE]
    ELSE LET h_cents   == harmonic_to_cents(n)
             deviation == key_cents - h_cents
             matches2  == IF deviation >= 0 /\ deviation <= tol
                          THEN Append(st.matches, [n |-> n, deviation |-> deviation])
                          ELSE st.matches
         IN  [matches |-> matches2, stopped |-> h_cents > key_cents + tol + 1000]

\* An iteration that leaves the loop as soon as a harmonic lies above the key
scan_step_eager_break(f1, key_cents, tol, n, st) ==
    IF f1 * n > MAX_FREQ_HZ THEN [st EXCEPT !.stopped = TRUE]
    ELSE LET h_cents   == harmonic_to_cents(n)
             deviation == key_cents - h_cents
             matches2  == IF Abs(deviation) <= tol
                          THEN Append(st.matches, [n |-> n, deviation |-> deviation])
                          ELSE st.matches
         IN  [matches |-> matches2, stopped |-> h_cents > key_cents]

\* One iteration of the inner loop of _build_mapping, for harmonic n: st holds
\* the matches so far and whether the loop has been left (break).
scan_step(f1, key_cents, tol, n, st) ==
    IF f1 * n > MAX_FREQ_HZ THEN [st EXCEPT !.stopped = TRUE]
    ELSE LET h_cents       == harmonic_to_cents(n)
             deviation     == key_cents - h_cents
             abs_deviation == Abs(deviation)
             matches2      == IF abs_deviation <= tol
                              THEN Append(st.matches, [n |-> n, deviation |-> deviation])
                              ELSE st.matches
         IN  [matches |-> matches2, stopped |-> h_cents > key_cents + tol + 1000]

\* The iterations lo .. hi of that loop in order, none of them after a break
\* (the range is halved so that the evaluation stays shallow).
RECURSIVE scan_harmonics(_, _, _, _, _, _)
scan_harmonics(f1, key_cents, tol, lo, hi, st) ==
    IF st.stopped THEN st
    ELSE IF lo = hi THEN scan_step(f1, key_cents, tol, lo, st)
    ELSE LET mid == (lo + hi) \div 2
         IN  scan_harmonics(f1, key_cents, tol, mid + 1, hi,
                            scan_harmonics(f1, key_cents, tol, lo, mid, st))

\* A table whose cents are counted from the lowest key instead of the anchor
build_key_from_lowest(f1, anchor, tol, midi) ==
    scan_harmonics(f1, (midi - lowest_midi) * 100000, tol, 1, MAX_HARMONIC,
                   [matches |-> <<>>, stopped |-> FALSE]).matches

\* One entry of the table: the matches of key midi, ascending in n (empty: None).
build_key(f1, anchor, tol, midi) ==
    scan_harmonics(f1, (midi - anchor) * 100000, tol, 1, MAX_HARMONIC,
                   [matches |-> <<>>, stopped |-> FALSE]).matches

\* The f1 and the anchors that the modulation notes of the model lead to
ModF1s     == {32703, 55000}
ModAnchors == {24, 33, 36, 48}

\* The tables of every parameter triple of the model, each computed once.
\* (The comparisons with the empty sequence make the evaluator tabulate the
\* functions instead of recomputing an entry at each application.)
MappingTable ==
    LET key_table(p) ==
            LET t == [midi \in lowest_midi..highest_midi |->
                         build_key(p[1], p[2], p[3], midi)]
            IN  IF t = <<>> THEN <<>> ELSE t
        table == [p \in (F1Values \X Anchors \X Tolerances)
                            \cup (ModF1s \X ModAnchors \X {25000}) |-> key_table(p)]
    IN  IF table = <<>> THEN <<>> ELSE table

\* KeyMapper._build_mapping
build_mapping(f1, anchor, tol) ==
    IF <<f1, anchor, tol>> \in DOMAIN MappingTable
    THEN MappingTable[<<f1, anchor, tol>>]
    ELSE LET t == [midi \in lowest_midi..highest_midi |-> build_key(f1, anchor, tol, midi)]
         IN  IF t = <<>> THEN <<>> ELSE t

\* self._mapping.get(midi_note)
mapping_get(midi_note) ==
    IF midi_note \in DOMAIN mapping THEN mapping[midi_note] ELSE <<>>

\* A lookup that returns n of the match nearest to the key
get_harmonic_closest(midi_note) ==
    LET matches == mapping_get(midi_note)
    IN  IF matches = <<>> THEN NoHarmonic
        ELSE LET i == CHOOSE i \in DOMAIN matches :
                          \A j \in DOMAIN matches :
                              \/ Abs(matches[i].deviation) < Abs(matches[j].deviation)
                              \/ /\ Abs(matches[i].deviation) = Abs(matches[j].deviation)
                                 /\ i <= j
             IN  matches[i].n

\* KeyMapper.get_harmonic: n of the first (lowest) match
get_harmonic(midi_note) ==
    LET matches == mapping_get(midi_note)
    IN  IF matches = <<>> THEN NoHarmonic ELSE matches[1].n

\* KeyMapper.get_match: the first (lowest) match as a HarmonicMatch
get_match(midi_note) ==
    LET matches == mapping_get(midi_note)
    IN  IF matches = <<>> THEN None
        ELSE [midi_note        |-> midi_note,
              harmonic_n       |-> matches[1].n,
              beacon_frequency |-> km_f1 * matches[1].n,
              deviation_cents  |-> matches[1].deviation]

\* KeyMapper.get_all_matches
get_all_matches(midi_note) ==
    LET matches_data == mapping_get(midi_note)
    IN  [i \in DOMAIN matches_data |->
            [midi_note        |-> midi_note,
             harmonic_n       |-> matches_data[i].n,
             beacon_frequency |-> km_f1 * matches_data[i].n,
             deviation_cents  |-> matches_data[i].deviation]]

\* KeyMapper.get_beacon_frequency: f1 * n of the first (lowest) match
NoFrequency == 0

get_beacon_frequency(midi_note) ==
    LET matches == mapping_get(midi_note)
    IN  IF matches = <<>> THEN NoFrequency ELSE km_f1 * matches[1].n

\* KeyMapper.rebuild: a parameter given as Unset (Python: None) keeps its value;
\* the table is rebuilt from the parameters as they are afterwards.
Unset == -1

\* A rebuild that keeps the table when only the tolerance is given
rebuild_stale(f1, anchor, tol) ==
    LET new_f1     == IF f1 # Unset THEN f1 ELSE km_f1
        new_anchor == IF anchor # Unset THEN anchor ELSE anchor_midi
        new_tol    == IF tol # Unset THEN tol ELSE tolerance_cents
    IN  [f1 |-> new_f1, anchor_midi |-> new_anchor, tolerance_cents |-> new_tol,
         mapping |-> IF f1 = Unset /\ anchor = Unset THEN mapping
                     ELSE build_mapping(new_f1, new_anchor, new_tol)]

rebuild(f1, anchor, tol) ==
    LET new_f1     == IF f1 # Unset THEN f1 ELSE km_f1
        new_anchor == IF anchor # Unset THEN anchor ELSE anchor_midi
        new_tol    == IF tol # Unset THEN tol ELSE tolerance_cents
    IN  [f1 |-> new_f1, anchor_midi |-> new_anchor, tolerance_cents |-> new_tol,
         mapping |-> build_mapping(new_f1, new_anchor, new_tol)]

(***************************************************************************)
(* OctaveBorrower (octave_borrower.py)                                     *)
(***************************************************************************)

\* A search that looks one octave up and no further
borrow_first_octave(midi_note, octaves_up) ==
    LET borrowed_midi == midi_note + 12
        match         == IF borrowed_midi > highest_midi THEN None
                         ELSE get_match(borrowed_midi)
    IN  IF match = None THEN None
        ELSE [original_midi    |-> midi_note,
              borrowed_midi    |-> borrowed_midi,
              harmonic_n       |-> match.harmonic_n,
              beacon_frequency |-> match.beacon_frequency,
              octaves_borrowed |-> 1]

\* The loop of borrow: octaves_up = 1 .. 9, left at the first key above the range.
RECURSIVE borrow_loop(_, _)
borrow_loop(midi_note, octaves_up) ==
    IF octaves_up > 9 THEN None
    ELSE LET borrowed_midi == midi_note + 12 * octaves_up
         IN  IF borrowed_midi > highest_midi THEN None
             ELSE LET match == get_match(borrowed_midi)
                  IN  IF match # None
                      THEN [original_midi    |-> midi_note,
                            borrowed_midi    |-> borrowed_midi,
                            harmonic_n       |-> match.harmonic_n,
                            beacon_frequency |-> match.beacon_frequency,
                            octaves_borrowed |-> octaves_up]
                      ELSE borrow_loop(midi_note, octaves_up + 1)

\* A borrower that does not look for a direct match first
borrow_unguarded(midi_note) ==
    borrow_loop(midi_note, 1)

\* OctaveBorrower.borrow
borrow(midi_note) ==
    IF get_harmonic(midi_note) # NoHarmonic THEN None
    ELSE borrow_loop(midi_note, 1)

(***************************************************************************)
(* VoiceTracker (polyphony.py)                                             *)
(***************************************************************************)

\* Python dict operations on _active_notes
dict_set(d, k, v) == [x \in DOMAIN d \cup {k} |-> IF x = k THEN v ELSE d[x]]
dict_pop(d, k)    == [x \in DOMAIN d \ {k} |-> d[x]]
EmptyDict         == [x \in {} |-> None]

\* An allocator that forgets to advance the counter
allocate_voice_id_stuck(c) ==
    [voice_id |-> c, next |-> c]

\* An allocator that forgets to wrap the counter
allocate_voice_id_unwrapped(c) ==
    [voice_id |-> c, next |-> c + 1]

\* VoiceTracker._allocate_voice_id, from the counter value c:
\* the identifier returned and the counter afterwards.
allocate_voice_id(c) ==
    [voice_id |-> c, next |-> (c + 1) % max_voices]

\* A retrigger that refreshes the velocity only
retrigger_velocity_only(pair, velocity, beacon_freq, playable_freq, original_f1, harmonic_n) ==
    [pair EXCEPT !.velocity = velocity]

\* VoiceTracker.note_on, the note already active: the pair is updated in place
retrigger(pair, velocity, beacon_freq, playable_freq, original_f1, harmonic_n) ==
    [pair EXCEPT !.velocity           = velocity,
                 !.beacon_frequency   = beacon_freq,
                 !.playable_frequency = playable_freq,
                 !.original_f1        = original_f1,
                 !.harmonic_n         = harmonic_n]

\* VoiceTracker.note_on: the tracker's fields afterwards and the value returned.
note_on(midi_note, velocity, beacon_freq, playable_freq, original_f1, harmonic_n) ==
    IF midi_note \in DOMAIN active_notes
    THEN LET pair == active_notes[midi_note]
         IN  [active |-> [active_notes EXCEPT ![midi_note] =
                            retrigger(pair, velocity, beacon_freq, playable_freq,
                                      original_f1, harmonic_n)],
              next   |-> next_voice_id,
              last   |-> last_played_note,
              ret    |-> <<pair.beacon_voice_id, pair.playable_voice_id>>]
    ELSE LET beacon   == allocate_voice_id(next_voice_id)
             playable == allocate_voice_id(beacon.next)
         IN  [active |-> dict_set(active_notes, midi_note,
                            [midi_note            |-> midi_note,
                             velocity             |-> velocity,
                             beacon_voice_id      |-> beacon.voice_id,
                             playable_voice_id    |-> playable.voice_id,
                             beacon_frequency     |-> beacon_freq,
                             playable_frequency   |-> playable_freq,
                             original_f1          |-> original_f1,
                             harmonic_n           |-> harmonic_n,
                             transposed_voice_id  |-> -1,
                             transposed_frequency |-> 0]),
              next   |-> playable.next,
              last   |-> midi_note,
              ret    |-> <<beacon.voice_id, playable.voice_id>>]

\* A note_off that empties the tracker
note_off_drops_all(midi_note) ==
    IF midi_note \in DOMAIN active_notes
    THEN [active |-> EmptyDict, ret |-> active_notes[midi_note]]
    ELSE [active |-> active_notes, ret |-> None]

\* VoiceTracker.note_off: self._active_notes.pop(midi_note, None)
note_off(midi_note) ==
    IF midi_note \in DOMAIN active_notes
    THEN [active |-> dict_pop(active_notes, midi_note), ret |-> active_notes[midi_note]]
    ELSE [active |-> active_notes, ret |-> None]

\* VoiceTracker.clear: the pairs that were active are returned, the dict emptied
clear ==
    [active |-> EmptyDict, ret |-> {active_notes[k] : k \in DOMAIN active_notes}]

\* VoiceTracker.active_count
active_count == Cardinality(DOMAIN active_notes)

\* A voice count of one voice per note
voice_count_one_per_key == Cardinality(DOMAIN active_notes)

\* VoiceTracker.voice_count
voice_count == Cardinality(DOMAIN active_notes) * 2

\* VoiceTracker.get_last_played_pair
get_last_played_pair ==
    IF last_played_note = NoNote THEN None
    ELSE IF last_played_note \in DOMAIN active_notes
         THEN active_notes[last_played_note] ELSE None

\* The voice identifiers a VoicePair holds (transposed_voice_id -1: not active).
pair_voice_ids(pair) ==
    IF pair.transposed_voice_id = -1
    THEN <<pair.beacon_voice_id, pair.playable_voice_id>>
    ELSE <<pair.beacon_voice_id, pair.playable_voice_id, pair.transposed_voice_id>>

(***************************************************************************)
(* The VoiceTracker on its own: any sequence of note_on, note_off, clear   *)
(***************************************************************************)

\* Bounds of the tracker runs
MaxPool   == 4      \* max_voices ranges over 1 .. MaxPool
MaxAllocs == 8      \* identifiers allocated in one run

VTKeys == {60, 62, 64}

\* Two argument vectors that differ in every field
VTArgs ==
    { [velocity |-> 64,  beacon_freq |-> 54000,  playable_freq |-> 216000,
       original_f1 |-> 54000, harmonic_n |-> 1],
      [velocity |-> 100, beacon_freq |-> 195000, playable_freq |-> 390000,
       original_f1 |-> 65000, harmonic_n |-> 3] }

Max(S) == CHOOSE x \in S : \A y \in S : x >= y

\* The allocator's history after the identifiers ids were allocated in order,
\* the first of them as allocation number first (counting from 0).
record_allocs(times, ids, first) ==
    [v \in DOMAIN times |->
        LET js == {j \in DOMAIN ids : ids[j] = v}
        IN  IF js = {} THEN times[v] ELSE first - 1 + Max(js)]

KM_Init ==
    /\ km_f1 = 65000
    /\ anchor_midi = 24
    /\ tolerance_cents = 25000
    /\ mapping = build_mapping(65000, 24, 25000)

VT_Init ==
    /\ max_voices \in 1..MaxPool
    /\ active_notes = EmptyDict
    /\ next_voice_id = 0
    /\ last_played_note = NoNote
    /\ last_op = [op |-> "init"]
    /\ ret = None
    /\ allocs = 0
    /\ alloc_time = [v \in 0..(max_voices - 1) |-> -1]
    /\ press_ids = [k \in VTKeys |-> <<>>]
    /\ press_start = [k \in VTKeys |-> -1]

VT_NoteOn(K, a) ==
    LET fresh == K \notin DOMAIN active_notes
        r     == note_on(K, a.velocity, a.beacon_freq, a.playable_freq,
                         a.original_f1, a.harmonic_n)
    IN  /\ fresh => allocs + 2 <= MaxAllocs
        /\ active_notes' = r.active
        /\ next_voice_id' = r.next
        /\ last_played_note' = r.last
        /\ ret' = r.ret
        /\ last_op' = [op |-> "note_on", note |-> K, args |-> a, fresh |-> fresh,
                       prev_ids |-> press_ids[K], prev_start |-> press_start[K],
                       prev_pair |-> IF fresh THEN None ELSE active_notes[K]]
        /\ allocs' = IF fresh THEN allocs + 2 ELSE allocs
        /\ alloc_time' = IF fresh THEN record_allocs(alloc_time, r.ret, allocs)
                         ELSE alloc_time
        /\ press_ids' = IF fresh THEN [press_ids EXCEPT ![K] = r.ret] ELSE press_ids
        /\ press_start' = IF fresh THEN [press_start EXCEPT ![K] = allocs]
                          ELSE press_start
        /\ UNCHANGED max_voices

VT_NoteOff(K) ==
    LET r == note_off(K)
    IN  /\ active_notes' = r.active
        /\ ret' = r.ret
        /\ last_op' = [op |-> "note_off", note |-> K]
        /\ UNCHANGED <<max_voices, next_voice_id, last_played_note>>
        /\ UNCHANGED hist_vars

VT_Clear ==
    LET r == clear
    IN  /\ active_notes' = r.active
        /\ ret' = r.ret
        /\ last_op' = [op |-> "clear"]
        /\ UNCHANGED <<max_voices, next_voice_id, last_played_note>>
        /\ UNCHANGED hist_vars

(***************************************************************************)
(* The KeyMapper and the OctaveBorrower on their own                       *)
(***************************************************************************)

MidiNotes == 0..127

KMH_Init ==
    /\ km_f1 \in F1Values
    /\ anchor_midi \in Anchors
    /\ tolerance_cents \in Tolerances
    /\ mapping = build_mapping(km_f1, anchor_midi, tolerance_cents)

KM_Rebuild(f1, anchor, tol) ==
    LET r == rebuild(f1, anchor, tol)
    IN  /\ km_f1' = r.f1
        /\ anchor_midi' = r.anchor_midi
        /\ tolerance_cents' = r.tolerance_cents
        /\ mapping' = r.mapping
        /\ last_op' = [op |-> "rebuild",
                       changed |-> {x \in {"f1", "anchor_midi", "tolerance_cents"} :
                                       \/ x = "f1" /\ r.f1 # km_f1
                                       \/ x = "anchor_midi" /\ r.anchor_midi # anchor_midi
                                       \/ x = "tolerance_cents"
                                              /\ r.tolerance_cents # tolerance_cents}]
        /\ ret' = None

KM_Borrow(K) ==
    /\ ret' = borrow(K)
    /\ last_op' = [op |-> "borrow", note |-> K]
    /\ UNCHANGED km_vars

\* The four lookups of a key, none of which changes the mapper
KM_Lookup(K) ==
    /\ ret' = [harmonic         |-> get_harmonic(K),
               match            |-> get_match(K),
               all_matches      |-> get_all_matches(K),
               beacon_frequency |-> get_beacon_frequency(K)]
    /\ last_op' = [op |-> "lookup", note |-> K]
    /\ UNCHANGED km_vars

(***************************************************************************)
(* Configuration (config.py)                                               *)
(***************************************************************************)

DEFAULT_F1 == 65000
F1_MIN == 32500
F1_MAX == 65000
F1_SMOOTHING_RATE == 100
ANCHOR_MIDI_NOTE == 24
LFO_RATE_MIN == 100
LFO_RATE_MAX == 10000
DEFAULT_LFO_RATE == 1000
DEFAULT_MAX_HARMONICS == 4
DEFAULT_NATURAL_LEVEL == 64
PAD_MODE_TOGGLE_NOTE == 8
PAD_ANCHOR_NOTE == 0
PANIC_NOTE == 111
MAX_VOICES == 32

\* Names main.py reads from config that config.py does not set
DEFAULT_TOLERANCE == 25000
TOLERANCE_MIN == 1000
TOLERANCE_MAX == 50000

(***************************************************************************)
(* The list-based VoiceTracker interface HarmonicBeacon calls              *)
(***************************************************************************)

\* k successive calls of _allocate_voice_id from counter value c
RECURSIVE allocate_voice_ids(_, _)
allocate_voice_ids(c, k) ==
    IF k = 0 THEN [ids |-> <<>>, next |-> c]
    ELSE LET a    == allocate_voice_id(c)
             rest == allocate_voice_ids(a.next, k - 1)
         IN  [ids |-> <<a.voice_id>> \o rest.ids, next |-> rest.next]

\* note_on(midi_note, velocity, frequencies=, harmonic_ns=, original_f1=):
\* one identifier per frequency for a key that is not active; a retrigger keeps
\* the identifiers and overwrites what is stored with them.
note_on_list(midi_note, velocity, frequencies, harmonic_ns, original_f1) ==
    IF midi_note \in DOMAIN active_notes
    THEN LET pair == active_notes[midi_note]
         IN  [active |-> [active_notes EXCEPT ![midi_note] =
                            [pair EXCEPT !.velocity    = velocity,
                                         !.frequencies = frequencies,
                                         !.harmonic_ns = harmonic_ns,
                                         !.original_f1 = original_f1]],
              next   |-> next_voice_id,
              last   |-> last_played_note,
              ret    |-> pair.voice_ids]
    ELSE LET a == allocate_voice_ids(next_voice_id, Len(frequencies))
         IN  [active |-> dict_set(active_notes, midi_note,
                            [midi_note   |-> midi_note,
                             velocity    |-> velocity,
                             voice_ids   |-> a.ids,
                             frequencies |-> frequencies,
                             harmonic_ns |-> harmonic_ns,
                             original_f1 |-> original_f1]),
              next   |-> a.next,
              last   |-> midi_note,
              ret    |-> a.ids]

(***************************************************************************)
(* HarmonicBeacon (main.py): what a handler does to the engine             *)
(***************************************************************************)

RECURSIVE Pow2(_)
Pow2(k) == IF k = 0 THEN 1 ELSE 2 * Pow2(k - 1)

\* round(x, 2) of a frequency: to the nearest 0.01 Hz
round2(f) == ((f + 5) \div 10) * 10

\* Messages to the synthesizer (OscSender)
NoteOnMsg(voice_id, freq, vel)  == [type |-> "note_on", voice_id |-> voice_id,
                                    frequency |-> freq, velocity |-> vel]
NoteOffMsg(voice_id, freq)      == [type |-> "note_off", voice_id |-> voice_id,
                                    frequency |-> freq]
\* a pitch expression of 12*log2(to/from) semitones
PitchMsg(voice_id, to, from)    == [type |-> "pitch", voice_id |-> voice_id,
                                    to |-> to, from |-> from]
AllNotesOffMsg                  == [type |-> "all_notes_off"]

\* The synthesizer's side of one message: /fnote starts the note of the
\* identifier, /fnote/rel ends it, /allnotesoff ends every note, and a pitch
\* expression starts and ends nothing
hear(ids, msg) ==
    CASE msg.type = "note_on"       -> ids \cup {msg.voice_id}
      [] msg.type = "note_off"      -> ids \ {msg.voice_id}
      [] msg.type = "all_notes_off" -> {}
      [] OTHER                      -> ids

\* The identifiers that hold a note once the messages have arrived in order
RECURSIVE heard(_, _)
heard(ids, msgs) ==
    IF msgs = <<>> THEN ids ELSE heard(hear(ids, Head(msgs)), Tail(msgs))

\* The fields a handler may change, as they are before it runs; emitted starts
\* empty. consulted: whether the handler called OctaveBorrower.borrow.
Cur ==
    [active    |-> active_notes,
     next      |-> next_voice_id,
     last      |-> last_played_note,
     lfos      |-> note_lfos,
     toggled   |-> toggled_harmonics,
     pad       |-> pad_mode_enabled,
     split     |-> split_mode_enabled,
     running   |-> running,
     pc        |-> run_pc,
     emitted   |-> <<>>,
     consulted |-> FALSE]

\* A stop that only leaves the loop: no sweep, the tracker as it was
stop_abrupt(e) ==
    [e EXCEPT !.running = FALSE,
              !.pc      = "returned"]

\* HarmonicBeacon.stop, reached through run()'s finally clause, also when a
\* handler raised: all notes off, the tracker cleared, the loop left.
stop(e) ==
    [e EXCEPT !.running = FALSE,
              !.pc      = "returned",
              !.emitted = Append(@, AllNotesOffMsg),
              !.active  = EmptyDict]

\* The pad layout (PAD_MAP_TYPE = "LAUNCHPAD"): the harmonic of a pad and
\* whether the pad latches (upper half in split mode); n = 0: not a pad.
pad_harmonic(note) ==
    LET rel == note - PAD_ANCHOR_NOTE
        x   == rel % 16
        y   == rel \div 16
        row_from_bottom == 7 - y
    IN  IF rel >= 0 /\ x < 8 /\ y < 8
        THEN IF split_mode_enabled
             THEN IF row_from_bottom < 4
                  THEN [n |-> 1 + x + row_from_bottom * 8, upper |-> FALSE]
                  ELSE [n |-> 1 + x + (row_from_bottom - 4) * 8, upper |-> TRUE]
             ELSE [n |-> 1 + x + row_from_bottom * 8, upper |-> FALSE]
        ELSE [n |-> 0, upper |-> FALSE]

\* The note-off messages of a released VoiceSet
note_off_msgs(pair) ==
    [i \in 1..Len(pair.voice_ids) |->
        NoteOffMsg(pair.voice_ids[i],
                   IF i <= Len(pair.frequencies) THEN pair.frequencies[i] ELSE 0)]

\* voices.note_off(note) and what follows it when a VoiceSet was active:
\* the key's LFO is dropped and a note-off is sent for each identifier.
release(e, note) ==
    LET r == note_off(note)
    IN  IF r.ret = None THEN e
        ELSE [e EXCEPT !.active  = dict_pop(@, note),
                       !.lfos    = dict_pop(@, note),
                       !.emitted = @ \o note_off_msgs(r.ret)]

\* HarmonicBeacon._handle_note_off
handle_note_off(e, note) ==
    IF pad_mode_enabled
    THEN LET p == pad_harmonic(note)
         IN  IF p.upper THEN e
             ELSE IF 1 <= p.n /\ p.n <= 64 THEN release(e, note)
             ELSE e
    ELSE release(e, note)

\* The keys of a dict in ascending order
RECURSIVE sorted_keys(_)
sorted_keys(S) ==
    IF S = {} THEN <<>> ELSE LET k == Min(S) IN <<k>> \o sorted_keys(S \ {k})

RECURSIVE release_all(_, _)
release_all(e, notes) ==
    IF notes = <<>> THEN e
    ELSE release_all(handle_note_off(e, Head(notes)), Tail(notes))

\* A panic that releases the keys one by one and does nothing more
panic_release_only(e) ==
    LET e1 == release_all(e, sorted_keys(DOMAIN active_notes))
    IN  [e1 EXCEPT !.emitted = @ \o <<AllNotesOffMsg>>]

\* HarmonicBeacon.panic
panic(e) ==
    LET e1 == release_all(e, sorted_keys(DOMAIN active_notes))
    IN  [e1 EXCEPT !.active  = EmptyDict,
                   !.toggled = {},
                   !.lfos    = EmptyDict,
                   !.emitted = @ \o <<AllNotesOffMsg, AllNotesOffMsg>>]

\* HarmonicBeacon._handle_split_mode_toggle
handle_split_mode_toggle(e, value) ==
    IF value > 0
    THEN [e EXCEPT !.split   = ~split_mode_enabled,
                   !.toggled = {},
                   !.active  = EmptyDict,
                   !.emitted = Append(@, AllNotesOffMsg)]
    ELSE e

\* A voice of the list a keyboard note-on builds: frequency, harmonic number
\* and gain (in 254ths).
Voice(freq, n, gain) == [freq |-> freq, n |-> n, gain |-> gain]

\* A borrowed harmonic that is sounded where it was found
transposed_freq_unfolded(current_f1, borrowed) ==
    current_f1 * borrowed.harmonic_n

\* _handle_note_on, step 2, borrowed: beacon_freq / (2 ** octaves_borrowed)
transposed_freq(current_f1, borrowed) ==
    (current_f1 * borrowed.harmonic_n) \div Pow2(borrowed.octaves_borrowed)

\* A handler that sounds the fundamental for a key it cannot map
primary_voice_fallback(note, current_f1) ==
    [sounds |-> TRUE, consulted |-> TRUE,
     voice  |-> Voice(current_f1, 1, 254),
     check_note_atmosphere |-> note + 12,
     check_note_natural    |-> note + 12]

\* _handle_note_on, steps 1 and 2: the primary voice of a key, direct or
\* borrowed; sounds = FALSE when the key has neither.
primary_voice(note, current_f1) ==
    LET match    == get_match(note)
        borrowed == IF match = None THEN borrow(note) ELSE None
        p_gain   == IF primary_lock THEN 254 ELSE harmonic_mix
    IN  IF match # None
        THEN [sounds |-> TRUE, consulted |-> FALSE,
              voice  |-> Voice(current_f1 * match.harmonic_n, match.harmonic_n, p_gain),
              check_note_atmosphere |-> note + 12,
              check_note_natural    |-> note + 12]
        ELSE IF borrowed = None
        THEN [sounds |-> FALSE, consulted |-> TRUE]
        ELSE [sounds |-> TRUE, consulted |-> TRUE,
              voice  |-> Voice(transposed_freq(current_f1, borrowed),
                               borrowed.harmonic_n, p_gain),
              check_note_atmosphere |-> note + 12 * borrowed.octaves_borrowed,
              check_note_natural    |-> note + 12]

\* A for loop that adds the matches of the octaves above where they were
\* found, without folding them down to the played key
RECURSIVE atmosphere_octave_unfolded(_, _, _, _, _, _, _)
atmosphere_octave_unfolded(voices, existing_freqs, octave_matches, i, note, check_note, current_f1) ==
    IF i > Len(octave_matches) THEN [voices |-> voices, existing |-> existing_freqs]
    ELSE IF Len(voices) >= max_harmonics + 1
    THEN [voices |-> voices, existing |-> existing_freqs]
    ELSE LET raw_freq == current_f1 * octave_matches[i].harmonic_n
             s_gain   == 254 - harmonic_mix
         IN  IF round2(raw_freq) \notin existing_freqs
             THEN atmosphere_octave_unfolded(
                      Append(voices, Voice(raw_freq, octave_matches[i].harmonic_n, s_gain)),
                      existing_freqs \cup {round2(raw_freq)},
                      octave_matches, i + 1, note, check_note, current_f1)
             ELSE atmosphere_octave_unfolded(voices, existing_freqs, octave_matches,
                                             i + 1, note, check_note, current_f1)

\* _handle_note_on, step 3, the for loop over the matches of one octave
RECURSIVE atmosphere_octave(_, _, _, _, _, _, _)
atmosphere_octave(voices, existing_freqs, octave_matches, i, note, check_note, current_f1) ==
    IF i > Len(octave_matches) THEN [voices |-> voices, existing |-> existing_freqs]
    ELSE IF Len(voices) >= max_harmonics + 1
    THEN [voices |-> voices, existing |-> existing_freqs]
    ELSE LET raw_freq     == current_f1 * octave_matches[i].harmonic_n
             fold_octaves == (check_note - note) \div 12
             folded_freq  == raw_freq \div Pow2(fold_octaves)
             s_gain       == 254 - harmonic_mix
         IN  IF round2(folded_freq) \notin existing_freqs
             THEN atmosphere_octave(
                      Append(voices, Voice(folded_freq, octave_matches[i].harmonic_n, s_gain)),
                      existing_freqs \cup {round2(folded_freq)},
                      octave_matches, i + 1, note, check_note, current_f1)
             ELSE atmosphere_octave(voices, existing_freqs, octave_matches, i + 1,
                                    note, check_note, current_f1)

\* _handle_note_on, step 3, the while loop over the octaves up to key 108
RECURSIVE atmosphere(_, _, _, _, _)
atmosphere(voices, existing_freqs, note, check_note, current_f1) ==
    IF Len(voices) < max_harmonics + 1 /\ check_note <= 108
    THEN LET r == atmosphere_octave(voices, existing_freqs, get_all_matches(check_note),
                                    1, note, check_note, current_f1)
         IN  atmosphere(r.voices, r.existing, note, check_note + 12, current_f1)
    ELSE voices

\* _handle_note_on, step 4: the direct matches of the octaves above, unfolded
RECURSIVE natural(_, _, _, _)
natural(voices, check_note, natural_count, current_f1) ==
    IF natural_count < 16 /\ check_note <= 108
    THEN LET nat_match == get_match(check_note)
         IN  IF nat_match # None /\ current_f1 * nat_match.harmonic_n <= 20000000
             THEN natural(Append(voices, Voice(current_f1 * nat_match.harmonic_n,
                                               nat_match.harmonic_n,
                                               2 * natural_harmonics_level)),
                          check_note + 12, natural_count + 1, current_f1)
             ELSE natural(voices, check_note + 12, natural_count, current_f1)
    ELSE voices

\* _handle_note_on, steps 2 to 4: the voice list of a key that sounds
keyboard_voices(note, p, current_f1) ==
    LET v1 == <<p.voice>>
        v2 == IF multi_harmonic_enabled
              THEN atmosphere(v1, {round2(p.voice.freq)}, note,
                              p.check_note_atmosphere, current_f1)
              ELSE v1
    IN  IF natural_harmonics_enabled
        THEN natural(v2, p.check_note_natural, 0, current_f1)
        ELSE v2

\* _handle_note_on, step 6: velocity / 127 scaled by the gain, at least 0.001
\* unless it is 0 (in units of 0.00001)
final_vel(velocity, gain) ==
    LET voice_vel == (velocity * gain * 50000) \div (127 * 127)
    IN  IF voice_vel > 0 THEN (IF voice_vel > 100 THEN voice_vel ELSE 100) ELSE 0

\* _handle_note_on, step 6: a note-on per identifier whose velocity is not 0.
\* frequencies[i] of an identifier beyond the list raises IndexError.
RECURSIVE note_on_msgs(_, _, _, _)
note_on_msgs(voice_ids, voices, velocity, i) ==
    IF i > Len(voice_ids) THEN [msgs |-> <<>>, raised |-> FALSE]
    ELSE IF i > Len(voices) THEN [msgs |-> <<>>, raised |-> TRUE]
    ELSE LET rest == note_on_msgs(voice_ids, voices, velocity, i + 1)
             vel  == final_vel(velocity, voices[i].gain)
         IN  [msgs   |-> IF vel > 0
                         THEN <<NoteOnMsg(voice_ids[i], voices[i].freq, vel)>> \o rest.msgs
                         ELSE rest.msgs,
              raised |-> rest.raised]

\* A HarmonicLFO as _handle_note_on creates it (lfo.py: __init__, set_harmonics)
new_lfo(frequencies) ==
    [rate |-> lfo_rate, mode |-> vibrato_mode, phase |-> 0,
     frequencies |-> IF frequencies = <<>> THEN <<440000>> ELSE frequencies]

\* _handle_note_on in keyboard mode
keyboard_note_on(e, note, velocity) ==
    LET current_f1 == f1_value
        p          == primary_voice(note, current_f1)
    IN  IF ~p.sounds THEN [e EXCEPT !.consulted = p.consulted]
        ELSE
        LET voices      == keyboard_voices(note, p, current_f1)
            frequencies == [i \in DOMAIN voices |-> voices[i].freq]
            harmonic_ns == [i \in DOMAIN voices |-> voices[i].n]
            r           == note_on_list(note, velocity, frequencies, harmonic_ns, current_f1)
            m           == note_on_msgs(r.ret, voices, velocity, 1)
            e1          == [e EXCEPT !.consulted = p.consulted,
                                     !.lfos    = dict_set(@, note, new_lfo(frequencies)),
                                     !.active  = r.active,
                                     !.next    = r.next,
                                     !.last    = r.last,
                                     !.emitted = @ \o m.msgs]
        IN  IF m.raised THEN stop(e1) ELSE e1

\* A pad handler that takes a new identifier at every press of the pad
play_harmonic_realloc(e, midi_note, harmonic_n, velocity) ==
    LET a == allocate_voice_id(next_voice_id)
    IN  [e EXCEPT !.active  = dict_set(@, midi_note,
                                 [midi_note   |-> midi_note,
                                  velocity    |-> velocity,
                                  voice_ids   |-> <<a.voice_id>>,
                                  frequencies |-> <<f1_value * harmonic_n>>,
                                  harmonic_ns |-> <<harmonic_n>>,
                                  original_f1 |-> f1_value]),
                  !.next    = a.next,
                  !.last    = midi_note,
                  !.emitted = Append(@, NoteOnMsg(a.voice_id, f1_value * harmonic_n,
                                                  (velocity * 100000) \div 127))]

\* HarmonicBeacon._play_harmonic
play_harmonic(e, midi_note, harmonic_n, velocity) ==
    LET current_f1 == f1_value
        frequency  == current_f1 * harmonic_n
        r          == note_on_list(midi_note, velocity, <<frequency>>, <<harmonic_n>>,
                                   current_f1)
    IN  [e EXCEPT !.active  = r.active,
                  !.next    = r.next,
                  !.last    = r.last,
                  !.emitted = IF r.ret # <<>>
                              THEN Append(@, NoteOnMsg(r.ret[1], frequency,
                                                       (velocity * 100000) \div 127))
                              ELSE @]

\* _handle_note_on in pad mode
pad_note_on(e, note, velocity) ==
    LET p == pad_harmonic(note)
    IN  IF 1 <= p.n /\ p.n <= 64
        THEN IF p.upper
             THEN IF p.n \in toggled_harmonics
                  THEN release([e EXCEPT !.toggled = @ \ {p.n}], note)
                  ELSE play_harmonic([e EXCEPT !.toggled = @ \cup {p.n}],
                                     note, p.n, velocity)
             ELSE play_harmonic(e, note, p.n, velocity)
        ELSE e

\* HarmonicBeacon._handle_note_on
handle_note_on(e, note, velocity) ==
    IF note = PANIC_NOTE THEN panic(e)
    ELSE IF note = PAD_MODE_TOGGLE_NOTE THEN [e EXCEPT !.pad = ~pad_mode_enabled]
    ELSE IF pad_mode_enabled THEN pad_note_on(e, note, velocity)
    ELSE keyboard_note_on(e, note, velocity)

(***************************************************************************)
(* F1Modulator and the per-tick updates (main.py)                          *)
(***************************************************************************)

\* F1Modulator.set_target_from_cc
set_target_from_cc(cc_value) == F1_MIN + (cc_value * (F1_MAX - F1_MIN)) \div 127

\* F1Modulator.set_target
set_target(frequency) == Max({F1_MIN, Min({F1_MAX, frequency})})

\* An update that steps twice as far as the rate says
f1_update_overshoot ==
    LET d    == f1_target - f1_value
        step == IF d >= 0 THEN (2 * d * f1_rate) \div 1000
                          ELSE -((2 * (-d) * f1_rate) \div 1000)
    IN  [value |-> f1_value + step, changed |-> Abs(step) > 10]

\* An update that stops half a hertz short of the target
f1_update_short ==
    LET d    == f1_target - f1_value
        step == IF Abs(d) < 500 THEN 0
                ELSE IF d >= 0 THEN (d * f1_rate) \div 1000
                               ELSE -(((-d) * f1_rate) \div 1000)
    IN  [value |-> f1_value + step, changed |-> Abs(step) > 10]

\* F1Modulator.update, value += (target - value) * rate: the new value (the
\* step is cut to a whole milli-Hz) and whether it moved by more than 0.01 Hz
f1_update ==
    LET d    == f1_target - f1_value
        step == IF d >= 0 THEN (d * f1_rate) \div 1000
                          ELSE -(((-d) * f1_rate) \div 1000)
    IN  [value |-> f1_value + step, changed |-> Abs(step) > 10]

\* F1Modulator.is_stable
is_stable == Abs(f1_value - f1_target) < 10

\* FREQ_A4 * (2.0 ** ((note - MIDI_A4) / 12.0)) for the notes 0 .. 127, in
\* milli-Hz (the entry of note k is at index k + 1)
MidiFreqTable == <<
    8176, 8662, 9177, 9723, 10301, 10913, 11562, 12250,
    12978, 13750, 14568, 15434, 16352, 17324, 18354, 19445,
    20602, 21827, 23125, 24500, 25957, 27500, 29135, 30868,
    32703, 34648, 36708, 38891, 41203, 43654, 46249, 48999,
    51913, 55000, 58270, 61735, 65406, 69296, 73416, 77782,
    82407, 87307, 92499, 97999, 103826, 110000, 116541, 123471,
    130813, 138591, 146832, 155563, 164814, 174614, 184997, 195998,
    207652, 220000, 233082, 246942, 261626, 277183, 293665, 311127,
    329628, 349228, 369994, 391995, 415305, 440000, 466164, 493883,
    523251, 554365, 587330, 622254, 659255, 698456, 739989, 783991,
    830609, 880000, 932328, 987767, 1046502, 1108731, 1174659, 1244508,
    1318510, 1396913, 1479978, 1567982, 1661219, 1760000, 1864655, 1975533,
    2093005, 2217461, 2349318, 2489016, 2637020, 2793826, 2959955, 3135963,
    3322438, 3520000, 3729310, 3951066, 4186009, 4434922, 4698636, 4978032,
    5274041, 5587652, 5919911, 6271927, 6644875, 7040000, 7458620, 7902133,
    8372018, 8869844, 9397273, 9956063, 10548082, 11175303, 11839822, 12543854
>>

(***************************************************************************)
(* MpeSender (mpe_sender.py)                                               *)
(***************************************************************************)

MPE_MASTER_CHANNEL == 0
MPE_PITCH_BEND_RANGE == 48

\* MPE_MEMBER_CHANNELS = list(range(1, 16)): the member channels, 0-indexed
MPE_MEMBER_CHANNELS == [i \in 1..15 |-> i]

\* MpeSender.__init__: no port yet, no voice on a channel, every member
\* channel in the pool
MpeSenderInit ==
    /\ port_open = FALSE
    /\ voice_channels = EmptyDict
    /\ available_channels = MPE_MEMBER_CHANNELS
    /\ channel_notes = EmptyDict

\* A sender that has been built and not used yet
MpeIdle == MpeSenderInit /\ n_mpe_offs = 0

\* The sender's fields, the messages a call has sent to the port so far, and
\* the channel a lookup has found (got = FALSE: None)
MpeCur ==
    [port_open |-> port_open, voice_channels |-> voice_channels,
     available |-> available_channels, notes |-> channel_notes,
     sent |-> <<>>, got |-> FALSE, channel |-> MPE_MASTER_CHANNEL]

\* Messages to the MIDI port
MpeMsg(type, channel, data) == [type |-> type, channel |-> channel, data |-> data]

\* _frequency_to_note_and_bend: the nearest MIDI note, within 0 .. 127, and
\* the pitch bend that covers the rest, a function of the distance in
\* semitones between the frequency and that note. The note is the number of
\* notes 1 .. 127 whose lower border, half-way from the note below, is not
\* above the frequency (half-way on the frequency scale, which agrees with
\* round(midi_float) but for frequencies within 0.05 % of a border).
frequency_to_note_and_bend(frequency) ==
    LET midi_note == Cardinality({k \in 1..127 :
                         MidiFreqTable[k] + MidiFreqTable[k + 1] <= 2 * frequency})
    IN  [note |-> midi_note,
         bend |-> [semitones_of |-> frequency, above_note |-> midi_note]]

\* A channel allocator that hands out the first member channel every time
allocate_channel_first_always(s, voice_id) ==
    IF voice_id \in DOMAIN s.voice_channels
    THEN [s EXCEPT !.got = TRUE, !.channel = s.voice_channels[voice_id]]
    ELSE [s EXCEPT !.got = TRUE, !.channel = MPE_MEMBER_CHANNELS[1],
                   !.voice_channels = dict_set(@, voice_id, MPE_MEMBER_CHANNELS[1])]

\* MpeSender._allocate_channel
allocate_channel(s, voice_id) ==
    IF voice_id \in DOMAIN s.voice_channels
    THEN [s EXCEPT !.got = TRUE, !.channel = s.voice_channels[voice_id]]
    ELSE IF s.available # <<>>
    THEN [s EXCEPT !.got = TRUE, !.channel = Head(s.available),
                   !.available = Tail(@),
                   !.voice_channels = dict_set(@, voice_id, Head(s.available))]
    ELSE [s EXCEPT !.got = FALSE]

\* MpeSender._release_channel
release_channel(s, voice_id) ==
    IF voice_id \in DOMAIN s.voice_channels
    THEN LET channel == s.voice_channels[voice_id]
         IN  [s EXCEPT !.voice_channels = dict_pop(@, voice_id),
                       !.available = Append(@, channel),
                       !.notes = dict_pop(@, channel),
                       !.got = TRUE, !.channel = channel]
    ELSE [s EXCEPT !.got = FALSE]

\* MpeSender.send_note_on (velocity in units of 0.00001)
mpe_send_note_on(s, voice_id, frequency, velocity) ==
    IF ~s.port_open THEN s
    ELSE LET a == allocate_channel(s, voice_id)
         IN  IF ~a.got THEN a
             ELSE LET nb == frequency_to_note_and_bend(frequency)
                      velocity_int == Max({1, Min({127, (velocity * 127) \div 100000})})
                  IN  [a EXCEPT !.sent = @ \o <<MpeMsg("pitchwheel", a.channel, nb.bend),
                                                MpeMsg("note_on", a.channel,
                                                       <<nb.note, velocity_int>>)>>,
                                !.notes = dict_set(@, a.channel, nb.note)]

\* MpeSender.send_note_off
mpe_send_note_off(s, voice_id, frequency, release_velocity) ==
    IF ~s.port_open THEN s
    ELSE IF voice_id \notin DOMAIN s.voice_channels THEN s
    ELSE LET channel   == s.voice_channels[voice_id]
             midi_note == IF channel \in DOMAIN s.notes THEN s.notes[channel]
                          ELSE IF frequency > 0
                          THEN frequency_to_note_and_bend(frequency).note
                          ELSE 60
             release_vel_int == Max({0, Min({127, (release_velocity * 127) \div 100000})})
         IN  release_channel(
                 [s EXCEPT !.sent = Append(@, MpeMsg("note_off", channel,
                                                     <<midi_note, release_vel_int>>))],
                 voice_id)

\* MpeSender.send_pitch_expression (the offset in thousandths of a semitone)
mpe_send_pitch_expression(s, voice_id, semitone_offset) ==
    IF ~s.port_open THEN s
    ELSE IF voice_id \notin DOMAIN s.voice_channels THEN s
    ELSE LET range      == MPE_PITCH_BEND_RANGE * 1000
             clamped    == Max({-range, Min({range, semitone_offset})})
             pitch_bend == Max({0, Min({16383, 8192 + (clamped * 8191) \div range})})
         IN  [s EXCEPT !.sent = Append(@, MpeMsg("pitchwheel", s.voice_channels[voice_id],
                                                 pitch_bend - 8192))]

\* MpeSender.send_all_notes_off: controller 123 on the master and the member
\* channels, then the tracking is cleared and the pool is whole again
mpe_send_all_notes_off(s) ==
    IF ~s.port_open THEN s
    ELSE [s EXCEPT !.sent = @ \o [c \in 1..(Len(MPE_MEMBER_CHANNELS) + 1) |->
                                     MpeMsg("control_change",
                                            IF c = 1 THEN MPE_MASTER_CHANNEL
                                            ELSE MPE_MEMBER_CHANNELS[c - 1],
                                            <<123, 0>>)],
                   !.voice_channels = EmptyDict,
                   !.notes = EmptyDict,
                   !.available = MPE_MEMBER_CHANNELS]

\* MpeSender.open and _configure_mpe: the pitch bend range is set on every
\* member channel (RPN 0, data entry, RPN reset)
mpe_open(s) ==
    LET rpn == <<<<101, 0>>, <<100, 0>>, <<6, MPE_PITCH_BEND_RANGE>>, <<38, 0>>,
                 <<101, 127>>, <<100, 127>>>>
    IN  [s EXCEPT !.port_open = TRUE,
                  !.sent = @ \o [i \in 1..(6 * Len(MPE_MEMBER_CHANNELS)) |->
                                    MpeMsg("control_change",
                                           MPE_MEMBER_CHANNELS[((i - 1) \div 6) + 1],
                                           rpn[((i - 1) % 6) + 1])]]

\* MpeSender.close
mpe_close(s) ==
    IF ~s.port_open THEN s
    ELSE [mpe_send_all_notes_off(s) EXCEPT !.port_open = FALSE]

midi_to_frequency(note) == MidiFreqTable[note + 1]

\* _handle_modulation_note, one iteration of the search for the harmonic
\* nearest to target_cents (best_diff < 0 stands for infinity)
closest_step(target_cents, n, st) ==
    LET h_cents == harmonic_to_cents(n)
        diff    == Abs(h_cents - target_cents)
        better  == st.best_diff < 0 \/ diff < st.best_diff
    IN  [best_n    |-> IF better THEN n ELSE st.best_n,
         best_diff |-> IF better THEN diff ELSE st.best_diff,
         stopped   |-> h_cents > target_cents + 100000]

\* The iterations lo .. hi of that search in order, none of them after a break
RECURSIVE closest_harmonic(_, _, _, _)
closest_harmonic(target_cents, lo, hi, st) ==
    IF st.stopped THEN st
    ELSE IF lo = hi THEN closest_step(target_cents, lo, st)
    ELSE LET mid == (lo + hi) \div 2
         IN  closest_harmonic(target_cents, mid + 1, hi,
                              closest_harmonic(target_cents, lo, mid, st))

\* _handle_modulation_note, the two while loops that bring f1 into the range
RECURSIVE transpose_up(_)
transpose_up(r) ==
    IF r.f1 < F1_MIN THEN transpose_up([f1 |-> r.f1 * 2, anchor |-> r.anchor + 12])
    ELSE r

RECURSIVE transpose_down(_)
transpose_down(r) ==
    IF r.f1 > F1_MAX THEN transpose_down([f1 |-> r.f1 \div 2, anchor |-> r.anchor - 12])
    ELSE r

\* A re-anchoring that leaves the frequency in the octave it was played in
modulation_untransposed(note) ==
    LET new_anchor == (anchor_midi \div 12) * 12 + (note % 12)
        best == closest_harmonic((note - new_anchor) * 100000, 1, MAX_HARMONIC,
                                 [best_n |-> 1, best_diff |-> -1, stopped |-> FALSE])
    IN  [f1 |-> midi_to_frequency(note) \div best.best_n, anchor |-> new_anchor]

\* A modulation that moves f1 and leaves the anchor where it is
modulation_keeps_anchor(note) ==
    [f1 |-> modulation_untransposed(note).f1, anchor |-> anchor_midi]

\* _handle_modulation_note: the new f1 and the new anchor
modulation(note) ==
    LET current_anchor      == anchor_midi
        played_pitch_class  == (note % 12)
        anchor_octave       == current_anchor \div 12
        new_anchor          == anchor_octave * 12 + played_pitch_class
        target_cents        == (note - new_anchor) * 100000
        best == closest_harmonic(target_cents, 1, MAX_HARMONIC,
                                 [best_n |-> 1, best_diff |-> -1, stopped |-> FALSE])
        played_freq         == midi_to_frequency(note)
    IN  transpose_down(transpose_up([f1 |-> played_freq \div best.best_n,
                                     anchor |-> new_anchor]))

\* HarmonicBeacon._update_active_voices for one key: a pitch expression per
\* identifier that has a stored frequency and harmonic number
retune_msgs(pair, current_f1) ==
    LET idx == SelectSeq([i \in 1..Len(pair.voice_ids) |-> i],
                         LAMBDA i : i <= Len(pair.frequencies) /\ i <= Len(pair.harmonic_ns))
    IN  [j \in 1..Len(idx) |->
            PitchMsg(pair.voice_ids[idx[j]], current_f1 * pair.harmonic_ns[idx[j]],
                     pair.frequencies[idx[j]])]

RECURSIVE flatten(_)
flatten(ss) == IF ss = <<>> THEN <<>> ELSE Head(ss) \o flatten(Tail(ss))

\* HarmonicBeacon._update_active_voices
update_active_voices(current_f1) ==
    LET notes == sorted_keys(DOMAIN active_notes)
    IN  flatten([i \in 1..Len(notes) |-> retune_msgs(active_notes[notes[i]], current_f1)])

\* The phase of an LFO is a multiple of 1/PhaseRes of a cycle.
PhaseRes == 4

\* An LFO whose phase runs whatever the number of its candidates
lfo_update_free_running(lfo, dphase) ==
    LET n == Len(lfo.frequencies)
        only == IF n = 0 THEN 440000 ELSE lfo.frequencies[1]
    IN  [phase |-> (lfo.phase + dphase) % PhaseRes,
         freq  |-> [lower |-> only, upper |-> only, frac |-> 0]]

\* An LFO in stepped mode that does not clamp its index at the top of the
\* triangle (a frequency of 0 stands for the read past the list)
lfo_update_unclamped(lfo, dphase) ==
    LET n        == Len(lfo.frequencies)
        phase    == (lfo.phase + dphase) % PhaseRes
        triangle == PhaseRes - Abs(2 * phase - PhaseRes)
        index    == (triangle * n) \div PhaseRes
        freq     == IF index < n THEN lfo.frequencies[index + 1] ELSE 0
    IN  [phase |-> phase, idx |-> <<index, index>>,
         freq  |-> [lower |-> freq, upper |-> freq, frac |-> 0]]

\* HarmonicLFO.update: the phase afterwards, the indices of the candidates
\* read, and the frequency returned, as the two frequencies it lies between
\* and the fraction of the way (in PhaseRes-ths)
lfo_update(lfo, dphase) ==
    LET n == Len(lfo.frequencies)
        only == IF n = 0 THEN 440000 ELSE lfo.frequencies[1]
    IN  IF n <= 1
        THEN [phase |-> lfo.phase,
              freq  |-> [lower |-> only, upper |-> only, frac |-> 0]]
        ELSE LET phase    == (lfo.phase + dphase) % PhaseRes
                 triangle == PhaseRes - Abs(2 * phase - PhaseRes)
             IN  IF lfo.mode = "STEPPED"
                 THEN LET index0 == (triangle * n) \div PhaseRes
                          index  == IF index0 < n - 1 THEN index0 ELSE n - 1
                      IN  [phase |-> phase,
                           idx   |-> <<index, index>>,
                           freq  |-> [lower |-> lfo.frequencies[index + 1],
                                      upper |-> lfo.frequencies[index + 1], frac |-> 0]]
                 ELSE LET position  == triangle * (n - 1)
                          lower_idx == position \div PhaseRes
                          upper_idx == IF lower_idx + 1 < n - 1 THEN lower_idx + 1 ELSE n - 1
                      IN  [phase |-> phase,
                           idx   |-> <<lower_idx, upper_idx>>,
                           freq  |-> [lower |-> lfo.frequencies[lower_idx + 1],
                                      upper |-> lfo.frequencies[upper_idx + 1],
                                      frac  |-> position % PhaseRes]]

\* Whether _update_lfo_chorus sweeps the LFO of a key
lfo_sweeps(note) ==
    /\ Len(note_lfos[note].frequencies) > 1
    /\ note \in DOMAIN active_notes

\* HarmonicBeacon._update_lfo_chorus: the LFOs afterwards
update_lfo_chorus(dphase) ==
    [note \in DOMAIN note_lfos |->
        IF lfo_sweeps(note)
        THEN [note_lfos[note] EXCEPT !.phase = lfo_update(note_lfos[note], dphase).phase]
        ELSE note_lfos[note]]

\* HarmonicBeacon._update_lfo_chorus: the pitch expressions sent, one for the
\* first voice of each key swept
lfo_chorus_msgs(dphase) ==
    LET notes == sorted_keys(DOMAIN note_lfos)
    IN  flatten([i \in 1..Len(notes) |->
            IF lfo_sweeps(notes[i])
            THEN <<[type     |-> "lfo_pitch",
                    voice_id |-> active_notes[notes[i]].voice_ids[1],
                    to       |-> lfo_update(note_lfos[notes[i]], dphase).freq,
                    from     |-> active_notes[notes[i]].frequencies[1]]>>
            ELSE <<>>])

(***************************************************************************)
(* The engine: one action per event of the run loop                        *)
(***************************************************************************)

\* Bounds of the engine runs
MaxNoteOns == 3     \* note-on events in one run
MaxCCs     == 1     \* control changes in one run
MaxTicks   == 1     \* ticks in one run

EngineNotes == {PAD_MODE_TOGGLE_NOTE, PANIC_NOTE, 24, 38, 100, 109}
Velocities  == {100}
CCValues    == {0, 127}
PhaseSteps  == {1, 2}

\* The program's fields after __init__ and start(), but for the two settings
\* given: whether the pad mode is on and whether the multi-harmonic mode is on
EngineFields(pad, multi) ==
    /\ km_f1 = DEFAULT_F1
    /\ anchor_midi = ANCHOR_MIDI_NOTE
    /\ tolerance_cents = DEFAULT_TOLERANCE
    /\ mapping = build_mapping(DEFAULT_F1, ANCHOR_MIDI_NOTE, DEFAULT_TOLERANCE)
    /\ max_voices = MAX_VOICES
    /\ active_notes = EmptyDict
    /\ next_voice_id = 0
    /\ last_played_note = NoNote
    /\ running = TRUE
    /\ run_pc = "loop"
    /\ f1_value = DEFAULT_F1
    /\ f1_target = DEFAULT_F1
    /\ f1_rate = F1_SMOOTHING_RATE
    /\ tolerance = DEFAULT_TOLERANCE
    /\ lfo_rate = DEFAULT_LFO_RATE
    /\ vibrato_mode = "SMOOTH"
    /\ multi_harmonic_enabled = multi
    /\ max_harmonics = DEFAULT_MAX_HARMONICS
    /\ primary_lock = TRUE
    /\ harmonic_mix = 127
    /\ natural_harmonics_enabled = FALSE
    /\ natural_harmonics_level = DEFAULT_NATURAL_LEVEL
    /\ pad_mode_enabled = pad
    /\ split_mode_enabled = FALSE
    /\ toggled_harmonics = {}
    /\ note_lfos = EmptyDict
    /\ held = {}

\* No event has been counted or observed yet
NothingObserved ==
    /\ last_op = [op |-> "init"]
    /\ ret = None
    /\ allocs = 0
    /\ alloc_time = [v \in 0..(max_voices - 1) |-> -1]
    /\ press_ids = [k \in VTKeys |-> <<>>]
    /\ press_start = [k \in VTKeys |-> -1]
    /\ emitted = <<>>
    /\ on_ids = {}
    /\ MpeIdle
    /\ n_note_ons = 0
    /\ n_ccs = 0
    /\ n_ticks = 0

\* The engine after __init__ and start(): pad mode, one voice per key
Init == EngineFields(TRUE, FALSE) /\ NothingObserved

\* The engine once the player has left the pad mode (note-on and note-off of
\* PAD_MODE_TOGGLE_NOTE) and switched the multi-harmonic mode on (its control
\* at 127), before any key is played
KeyboardMulti == EngineFields(FALSE, TRUE)

InitPlay == KeyboardMulti /\ NothingObserved

\* The engine takes the fields of an effect
Apply(e) ==
    /\ active_notes' = e.active
    /\ next_voice_id' = e.next
    /\ last_played_note' = e.last
    /\ note_lfos' = e.lfos
    /\ toggled_harmonics' = e.toggled
    /\ pad_mode_enabled' = e.pad
    /\ split_mode_enabled' = e.split
    /\ running' = e.running
    /\ run_pc' = e.pc
    /\ emitted' = e.emitted
    /\ on_ids' = heard(on_ids, emitted')
    /\ UNCHANGED mpe_vars

NoteOn(note, velocity) ==
    LET e == handle_note_on(Cur, note, velocity)
    IN  /\ run_pc = "loop"
        /\ n_note_ons < MaxNoteOns
        /\ Apply(e)
        /\ held' = held \cup {note}
        /\ n_note_ons' = n_note_ons + 1
        /\ last_op' = [op |-> "note_on", note |-> note, consulted |-> e.consulted]
        /\ UNCHANGED <<km_vars, max_voices, ret, hist_vars, f1_vars, set_vars, n_ccs, n_ticks>>

NoteOff(note) ==
    /\ run_pc = "loop"
    /\ note \in held
    /\ Apply(handle_note_off(Cur, note))
    /\ held' = held \ {note}
    /\ last_op' = [op |-> "note_off", note |-> note]
    /\ UNCHANGED <<km_vars, max_voices, ret, hist_vars, f1_vars, set_vars,
                   n_note_ons, n_ccs, n_ticks>>

\* One pass of the loop body before the events are read: f1 moves, the active
\* voices are re-tuned if it moved, the LFOs are swept.
\* A loop that sweeps the LFOs first and re-tunes with the f1 of the pass before
tick_msgs_lfo_first(u, dphase) ==
    lfo_chorus_msgs(dphase)
        \o (IF u.changed /\ active_count > 0 THEN update_active_voices(f1_value) ELSE <<>>)

\* HarmonicBeacon.run, the messages of a pass before its events: those of the
\* re-tune with the updated f1, then those of the LFO sweep
tick_msgs(u, dphase) ==
    (IF u.changed /\ active_count > 0 THEN update_active_voices(u.value) ELSE <<>>)
        \o lfo_chorus_msgs(dphase)

Tick(dphase) ==
    LET u  == f1_update
    IN  /\ running /\ run_pc = "loop"
        /\ n_ticks < MaxTicks
        /\ f1_value' = u.value
        /\ note_lfos' = update_lfo_chorus(dphase)
        /\ emitted' = tick_msgs(u, dphase)
        /\ on_ids' = heard(on_ids, emitted')
        /\ UNCHANGED mpe_vars
        /\ n_ticks' = n_ticks + 1
        /\ last_op' = [op |-> "tick"]
        /\ UNCHANGED <<km_vars, vt_vars, ret, hist_vars, running, run_pc, f1_target, f1_rate, set_vars,
                       mode_vars, held, n_note_ons, n_ccs>>

\* What every control change leaves alone, and the count of the event
ControlChange(name) ==
    /\ run_pc = "loop"
    /\ n_ccs < MaxCCs
    /\ n_ccs' = n_ccs + 1
    /\ last_op' = [op |-> name]
    /\ UNCHANGED <<max_voices, ret, hist_vars, held, n_note_ons, n_ticks>>

\* HarmonicBeacon._handle_f1_change
handle_f1_change(cc_value) ==
    /\ ControlChange("f1_change")
    /\ f1_target' = set_target_from_cc(cc_value)
    /\ emitted' = <<>>
    /\ on_ids' = heard(on_ids, emitted')
    /\ UNCHANGED mpe_vars
    /\ UNCHANGED <<km_vars, active_notes, next_voice_id, last_played_note, running, run_pc,
                   f1_value, f1_rate, set_vars, mode_vars, note_lfos>>

\* HarmonicBeacon._handle_tolerance_change
handle_tolerance_change(cc_value) ==
    LET normalized_cc == IF cc_value > 1 THEN cc_value ELSE 1
        new_tolerance == TOLERANCE_MIN
                         + (normalized_cc * (TOLERANCE_MAX - TOLERANCE_MIN)) \div 127
        r == rebuild(Unset, Unset, new_tolerance)
    IN  /\ ControlChange("tolerance_change")
        /\ tolerance' = new_tolerance
        /\ km_f1' = r.f1
        /\ anchor_midi' = r.anchor_midi
        /\ tolerance_cents' = r.tolerance_cents
        /\ mapping' = r.mapping
        /\ emitted' = <<>>
        /\ on_ids' = heard(on_ids, emitted')
        /\ UNCHANGED mpe_vars
        /\ UNCHANGED <<active_notes, next_voice_id, last_played_note, running, run_pc, f1_vars,
                       lfo_rate, vibrato_mode, multi_harmonic_enabled, max_harmonics,
                       primary_lock, harmonic_mix, natural_harmonics_enabled,
                       natural_harmonics_level, mode_vars, note_lfos>>

\* A rate handler that sets the engine's rate and leaves the LFOs of the
\* held keys at the rate they were created with
handle_lfo_rate_change_engine_only(cc_value) ==
    LET new_rate == LFO_RATE_MIN + (cc_value * (LFO_RATE_MAX - LFO_RATE_MIN)) \div 127
    IN  /\ ControlChange("lfo_rate_change")
        /\ lfo_rate' = new_rate
        /\ emitted' = <<>>
        /\ on_ids' = heard(on_ids, emitted')
        /\ UNCHANGED mpe_vars
        /\ UNCHANGED <<km_vars, active_notes, next_voice_id, last_played_note, running, run_pc,
                       f1_vars, tolerance, vibrato_mode, multi_harmonic_enabled,
                       max_harmonics, primary_lock, harmonic_mix,
                       natural_harmonics_enabled, natural_harmonics_level, mode_vars,
                       note_lfos>>

\* HarmonicBeacon._handle_lfo_rate_change
handle_lfo_rate_change(cc_value) ==
    LET new_rate == LFO_RATE_MIN + (cc_value * (LFO_RATE_MAX - LFO_RATE_MIN)) \div 127
    IN  /\ ControlChange("lfo_rate_change")
        /\ lfo_rate' = new_rate
        /\ note_lfos' = [k \in DOMAIN note_lfos |-> [note_lfos[k] EXCEPT !.rate = new_rate]]
        /\ emitted' = <<>>
        /\ on_ids' = heard(on_ids, emitted')
        /\ UNCHANGED mpe_vars
        /\ UNCHANGED <<km_vars, active_notes, next_voice_id, last_played_note, running, run_pc,
                       f1_vars, tolerance, vibrato_mode, multi_harmonic_enabled,
                       max_harmonics, primary_lock, harmonic_mix,
                       natural_harmonics_enabled, natural_harmonics_level, mode_vars>>

\* HarmonicBeacon._handle_vibrato_mode_toggle
handle_vibrato_mode_toggle(cc_value) ==
    LET new_mode == IF cc_value >= 64 THEN "STEPPED" ELSE "SMOOTH"
    IN  /\ ControlChange("vibrato_mode_toggle")
        /\ vibrato_mode' = new_mode
        /\ note_lfos' = IF new_mode # vibrato_mode
                        THEN [k \in DOMAIN note_lfos |->
                                 [note_lfos[k] EXCEPT !.mode = new_mode]]
                        ELSE note_lfos
        /\ emitted' = <<>>
        /\ on_ids' = heard(on_ids, emitted')
        /\ UNCHANGED mpe_vars
        /\ UNCHANGED <<km_vars, active_notes, next_voice_id, last_played_note, running, run_pc,
                       f1_vars, tolerance, lfo_rate, multi_harmonic_enabled,
                       max_harmonics, primary_lock, harmonic_mix,
                       natural_harmonics_enabled, natural_harmonics_level, mode_vars>>

\* The handlers that set one field of the engine and nothing else
SetOnly(name) ==
    /\ ControlChange(name)
    /\ emitted' = <<>>
    /\ on_ids' = heard(on_ids, emitted')
    /\ UNCHANGED mpe_vars
    /\ UNCHANGED <<km_vars, active_notes, next_voice_id, last_played_note, running, run_pc,
                   f1_vars, tolerance, lfo_rate, vibrato_mode, mode_vars, note_lfos>>

\* HarmonicBeacon._handle_multi_harmonic_toggle
handle_multi_harmonic_toggle(cc_value) ==
    /\ SetOnly("multi_harmonic_toggle")
    /\ multi_harmonic_enabled' = (cc_value >= 64)
    /\ UNCHANGED <<max_harmonics, primary_lock, harmonic_mix,
                   natural_harmonics_enabled, natural_harmonics_level>>

\* HarmonicBeacon._handle_max_harmonics_change
handle_max_harmonics_change(cc_value) ==
    /\ SetOnly("max_harmonics_change")
    /\ max_harmonics' = 1 + (cc_value * 3) \div 127
    /\ UNCHANGED <<multi_harmonic_enabled, primary_lock, harmonic_mix,
                   natural_harmonics_enabled, natural_harmonics_level>>

\* HarmonicBeacon._handle_primary_lock_toggle
handle_primary_lock_toggle(cc_value) ==
    /\ SetOnly("primary_lock_toggle")
    /\ primary_lock' = (cc_value >= 64)
    /\ UNCHANGED <<multi_harmonic_enabled, max_harmonics, harmonic_mix,
                   natural_harmonics_enabled, natural_harmonics_level>>

\* HarmonicBeacon._handle_harmonic_mix_change
handle_harmonic_mix_change(cc_value) ==
    /\ SetOnly("harmonic_mix_change")
    /\ harmonic_mix' = 2 * cc_value
    /\ UNCHANGED <<multi_harmonic_enabled, max_harmonics, primary_lock,
                   natural_harmonics_enabled, natural_harmonics_level>>

\* HarmonicBeacon._handle_natural_harmonics_toggle
handle_natural_harmonics_toggle(cc_value) ==
    /\ SetOnly("natural_harmonics_toggle")
    /\ natural_harmonics_enabled' = (cc_value >= 64)
    /\ UNCHANGED <<multi_harmonic_enabled, max_harmonics, primary_lock, harmonic_mix,
                   natural_harmonics_level>>

\* HarmonicBeacon._handle_natural_level_change
handle_natural_level_change(cc_value) ==
    /\ SetOnly("natural_level_change")
    /\ natural_harmonics_level' = cc_value
    /\ UNCHANGED <<multi_harmonic_enabled, max_harmonics, primary_lock, harmonic_mix,
                   natural_harmonics_enabled>>

\* run(): elif self.midi.is_panic_cc(msg) and msg.value > 0: self.panic()
panic_cc(value) ==
    /\ ControlChange(IF value > 0 THEN "panic_cc" ELSE "panic_cc_released")
    /\ Apply(IF value > 0 THEN panic(Cur) ELSE Cur)
    /\ UNCHANGED <<km_vars, f1_vars, set_vars>>

\* run(): elif self.midi.is_split_mode_toggle(msg): self._handle_split_mode_toggle(...)
split_mode_toggle(value) ==
    /\ ControlChange("split_mode_toggle")
    /\ Apply(handle_split_mode_toggle(Cur, value))
    /\ UNCHANGED <<km_vars, f1_vars, set_vars>>

Next ==
    \/ \E note \in EngineNotes, velocity \in Velocities : NoteOn(note, velocity)
    \/ \E note \in EngineNotes : NoteOff(note)
    \/ \E dphase \in PhaseSteps : Tick(dphase)
    \/ \E cc_value \in CCValues : handle_f1_change(cc_value)
    \/ \E cc_value \in CCValues : handle_tolerance_change(cc_value)
    \/ \E cc_value \in CCValues : handle_lfo_rate_change(cc_value)
    \/ \E cc_value \in CCValues : handle_vibrato_mode_toggle(cc_value)
    \/ \E cc_value \in CCValues : handle_multi_harmonic_toggle(cc_value)
    \/ \E cc_value \in CCValues : handle_max_harmonics_change(cc_value)
    \/ \E cc_value \in CCValues : handle_primary_lock_toggle(cc_value)
    \/ \E cc_value \in CCValues : handle_harmonic_mix_change(cc_value)
    \/ \E cc_value \in CCValues : handle_natural_harmonics_toggle(cc_value)
    \/ \E cc_value \in CCValues : handle_natural_level_change(cc_value)
    \/ \E value \in CCValues : panic_cc(value)
    \/ \E value \in CCValues : split_mode_toggle(value)

Spec == Init /\ [][Next]_vars

\* The runs of a player who starts in the keyboard mode with several voices
\* per key
SpecPlay == InitPlay /\ [][Next]_vars

(***************************************************************************)
(* The F1Modulator and the secondary controller on their own               *)
(***************************************************************************)

\* Bounds and inputs of the F1Modulator runs
MaxTargetChanges == 2   \* changes of the target in one run

InitialF1s  == {DEFAULT_F1, 100000}             \* --f1
Rates       == {F1_SMOOTHING_RATE, 500, 1000}   \* smoothing_rate
F1CCValues  == {0, 64, 127}
TargetFreqs == {20000, 48000, 70000}
ModNotes    == {12, 45, 60}

\* What the F1 operations below leave alone
f1_frame == <<vt_vars, hist_vars, running, run_pc, set_vars, mode_vars, note_lfos,
              held, n_note_ons, n_ticks>>

\* main(): beacon.f1.value = args.f1; beacon.f1.target = args.f1, on an engine
\* whose mapper was built with DEFAULT_F1; the rate is the constructor's
F1_Start(initial, smoothing_rate) ==
    /\ f1_value = initial
    /\ f1_target = initial
    /\ f1_rate = smoothing_rate

F1_SetTargetFromCC(cc_value) ==
    /\ n_ccs < MaxTargetChanges
    /\ f1_target' = set_target_from_cc(cc_value)
    /\ n_ccs' = n_ccs + 1
    /\ last_op' = [op |-> "set_target_from_cc", cc_value |-> cc_value]
    /\ ret' = None
    /\ emitted' = <<>>
    /\ on_ids' = heard(on_ids, emitted')
    /\ UNCHANGED mpe_vars
    /\ UNCHANGED <<km_vars, f1_value, f1_rate, f1_frame>>

F1_SetTarget(frequency) ==
    /\ n_ccs < MaxTargetChanges
    /\ f1_target' = set_target(frequency)
    /\ n_ccs' = n_ccs + 1
    /\ last_op' = [op |-> "set_target", frequency |-> frequency]
    /\ ret' = None
    /\ emitted' = <<>>
    /\ on_ids' = heard(on_ids, emitted')
    /\ UNCHANGED mpe_vars
    /\ UNCHANGED <<km_vars, f1_value, f1_rate, f1_frame>>

\* One pass of the main loop with no event: f1.update()
F1_Update ==
    LET u == f1_update
    IN  /\ f1_value' = u.value
        /\ last_op' = [op |-> "update", old_value |-> f1_value]
        /\ ret' = [changed |-> u.changed]
        /\ emitted' = IF u.changed /\ active_count > 0
                      THEN update_active_voices(u.value) ELSE <<>>
        /\ on_ids' = heard(on_ids, emitted')
        /\ UNCHANGED mpe_vars
        /\ UNCHANGED <<km_vars, f1_target, f1_rate, n_ccs, f1_frame>>

\* HarmonicBeacon._handle_modulation_note (a note-on of the secondary
\* controller): f1 jumps to the new value, the mapper is rebuilt around the new
\* anchor and the sounding voices are re-tuned
handle_modulation_note(note) ==
    LET m == modulation(note)
        r == rebuild(m.f1, m.anchor, Unset)
    IN  /\ n_ccs < MaxTargetChanges
        /\ f1_value' = m.f1
        /\ f1_target' = m.f1
        /\ km_f1' = r.f1
        /\ anchor_midi' = r.anchor_midi
        /\ tolerance_cents' = r.tolerance_cents
        /\ mapping' = r.mapping
        /\ emitted' = update_active_voices(m.f1)
        /\ on_ids' = heard(on_ids, emitted')
        /\ UNCHANGED mpe_vars
        /\ n_ccs' = n_ccs + 1
        /\ last_op' = [op |-> "modulation_note", note |-> note]
        /\ ret' = None
        /\ UNCHANGED <<f1_rate, f1_frame>>

(***************************************************************************)
(* Specifications of the tracker, mapper and modulator runs                *)
(***************************************************************************)

\* The engine fields, at rest
EngineRest ==
    /\ running = FALSE
    /\ run_pc = "start"
    /\ tolerance = DEFAULT_TOLERANCE
    /\ lfo_rate = DEFAULT_LFO_RATE
    /\ vibrato_mode = "SMOOTH"
    /\ multi_harmonic_enabled = FALSE
    /\ max_harmonics = DEFAULT_MAX_HARMONICS
    /\ primary_lock = TRUE
    /\ harmonic_mix = 127
    /\ natural_harmonics_enabled = FALSE
    /\ natural_harmonics_level = DEFAULT_NATURAL_LEVEL
    /\ pad_mode_enabled = TRUE
    /\ split_mode_enabled = FALSE
    /\ toggled_harmonics = {}
    /\ note_lfos = EmptyDict
    /\ emitted = <<>>
    /\ on_ids = {}
    /\ MpeIdle
    /\ held = {}
    /\ n_note_ons = 0
    /\ n_ccs = 0
    /\ n_ticks = 0

EngineIdle ==
    /\ F1_Start(DEFAULT_F1, F1_SMOOTHING_RATE)
    /\ EngineRest

InitVT == KM_Init /\ VT_Init /\ EngineIdle

NextVT ==
    \/ \E K \in VTKeys, a \in VTArgs : VT_NoteOn(K, a) /\ UNCHANGED <<km_vars, eng_vars>>
    \/ \E K \in VTKeys : VT_NoteOff(K) /\ UNCHANGED <<km_vars, eng_vars>>
    \/ VT_Clear /\ UNCHANGED <<km_vars, eng_vars>>

SpecVT == InitVT /\ [][NextVT]_vars

(***************************************************************************)
(* Specification of the mapper and borrower runs                           *)
(***************************************************************************)

TrackerIdle ==
    /\ max_voices = MAX_VOICES
    /\ active_notes = EmptyDict
    /\ next_voice_id = 0
    /\ last_played_note = NoNote
    /\ last_op = [op |-> "init"]
    /\ ret = None
    /\ allocs = 0
    /\ alloc_time = [v \in 0..(max_voices - 1) |-> -1]
    /\ press_ids = [k \in VTKeys |-> <<>>]
    /\ press_start = [k \in VTKeys |-> -1]

InitKM == KMH_Init /\ TrackerIdle /\ EngineIdle

NextKM ==
    \/ \E f1 \in F1Values \cup {Unset}, anchor \in Anchors \cup {Unset},
          tol \in Tolerances \cup {Unset} :
          KM_Rebuild(f1, anchor, tol) /\ UNCHANGED <<vt_vars, hist_vars, eng_vars>>
    \/ \E K \in MidiNotes : KM_Borrow(K) /\ UNCHANGED <<vt_vars, hist_vars, eng_vars>>
    \/ \E K \in MidiNotes : KM_Lookup(K) /\ UNCHANGED <<vt_vars, hist_vars, eng_vars>>

SpecKM == InitKM /\ [][NextKM]_vars

InitF1 ==
    /\ KM_Init
    /\ TrackerIdle
    /\ EngineRest
    /\ \E initial \in InitialF1s, smoothing_rate \in Rates :
           F1_Start(initial, smoothing_rate)

NextF1 ==
    \/ \E cc_value \in F1CCValues : F1_SetTargetFromCC(cc_value)
    \/ \E frequency \in TargetFreqs : F1_SetTarget(frequency)
    \/ F1_Update
    \/ \E note \in ModNotes : handle_modulation_note(note)

SpecF1 == InitF1 /\ [][NextF1]_vars

\* The main loop runs f1.update() on every pass
SpecF1Live == SpecF1 /\ WF_vars(F1_Update)

(***************************************************************************)
(* Properties of the VoiceTracker (checked under SpecVT)                   *)
(***************************************************************************)

\* The step is a note_on of a key that had no pair / that had one
FreshNoteOnStep == last_op'.op = "note_on" /\ last_op'.fresh
RetriggerStep   == last_op'.op = "note_on" /\ ~last_op'.fresh
NoteOffStep     == last_op'.op = "note_off"

\* C2: note_on for a key that has no pair takes one identifier per voice of the
\* pair (beacon, playable) by advancing the counter once for each, stores a
\* pair that holds exactly the identifiers it returns, and shares an identifier
\* with the key's previous press only if at least max_voices allocations lie
\* between the two (the counter has wrapped round to it).
C2_FreshAllocation ==
    [][FreshNoteOnStep =>
        LET K == last_op'.note
        IN  /\ ret' = <<next_voice_id, (next_voice_id + 1) % max_voices>>
            /\ next_voice_id' = (next_voice_id + 2) % max_voices
            /\ K \in DOMAIN active_notes'
            /\ pair_voice_ids(active_notes'[K]) = ret'
            /\ \A i \in DOMAIN press_ids[K], j \in DOMAIN ret' :
                   press_ids[K][i] = ret'[j]
                       => (allocs + j) - (press_start[K] + i) >= max_voices
    ]_vars

\* A key pressed again after its release got identifiers disjoint from those
\* of its earlier press
C2_Witness ==
    /\ last_op.op = "note_on"
    /\ last_op.fresh
    /\ last_op.prev_ids # <<>>
    /\ Range(last_op.prev_ids) \cap Range(ret) = {}
    /\ active_notes[last_op.note].beacon_voice_id = ret[1]

\* C3: note_on for a key that has a pair returns the identifiers of that pair,
\* leaves the counter where it is, and overwrites the stored velocity,
\* frequencies, harmonic number and original f1 with its arguments.
C3_Retrigger ==
    [][RetriggerStep =>
        LET K   == last_op'.note
            a   == last_op'.args
            new == active_notes'[K]
        IN  /\ ret' = pair_voice_ids(active_notes[K])
            /\ pair_voice_ids(new) = pair_voice_ids(active_notes[K])
            /\ next_voice_id' = next_voice_id
            /\ new.velocity = a.velocity
            /\ new.beacon_frequency = a.beacon_freq
            /\ new.playable_frequency = a.playable_freq
            /\ new.harmonic_n = a.harmonic_n
            /\ new.original_f1 = a.original_f1
    ]_vars

\* A retrigger that changed every stored field of the pair
C3_Witness ==
    /\ last_op.op = "note_on"
    /\ ~last_op.fresh
    /\ LET old == last_op.prev_pair
           new == active_notes[last_op.note]
       IN  /\ old.velocity # new.velocity
           /\ old.beacon_frequency # new.beacon_frequency
           /\ old.playable_frequency # new.playable_frequency
           /\ old.harmonic_n # new.harmonic_n
           /\ old.original_f1 # new.original_f1
           /\ ret = pair_voice_ids(old)

\* C4: note_off(K) removes and returns K's pair and nothing else: the pairs of
\* the other keys, the counter and the last-played key stay as they are; for a
\* key without a pair it returns None and changes nothing.
C4_NoteOffFrame ==
    [][NoteOffStep =>
        LET K == last_op'.note
        IN  /\ next_voice_id' = next_voice_id
            /\ last_played_note' = last_played_note
            /\ max_voices' = max_voices
            /\ IF K \in DOMAIN active_notes
               THEN /\ ret' = active_notes[K]
                    /\ DOMAIN active_notes' = DOMAIN active_notes \ {K}
                    /\ \A J \in DOMAIN active_notes' : active_notes'[J] = active_notes[J]
               ELSE /\ ret' = None
                    /\ active_notes' = active_notes
    ]_vars

\* A key was released while another one was active, and it is still the
\* last-played key
C4_Witness ==
    /\ last_op.op = "note_off"
    /\ ret # None
    /\ ret.midi_note = last_op.note
    /\ last_op.note \notin DOMAIN active_notes
    /\ active_notes # EmptyDict
    /\ last_played_note = last_op.note

RECURSIVE SumOver(_, _)
SumOver(f, S) ==
    IF S = {} THEN 0
    ELSE LET x == CHOOSE y \in S : TRUE IN f[x] + SumOver(f, S \ {x})

\* C5: voice_count is the sum over the active keys of the number of identifiers
\* of the key's pair, and active_count is the number of keys that have a pair.
C5_Counts ==
    /\ voice_count = SumOver([K \in DOMAIN active_notes |->
                                 Len(pair_voice_ids(active_notes[K]))],
                             DOMAIN active_notes)
    /\ active_count = Cardinality({K \in VTKeys : K \in DOMAIN active_notes})

\* Two keys are active after a release
C5_Witness ==
    /\ last_op.op = "note_off"
    /\ active_count = 2
    /\ voice_count = 4

\* C6: identifiers lie in 0 .. max_voices - 1, allocation number k (from 0)
\* returns k mod max_voices, a note_on of an inactive key is possible whatever
\* is active, and the identifier handed out next is one whose latest allocation
\* is the oldest of all (or that was never allocated).
C6_WrappingPool ==
    /\ next_voice_id = allocs % max_voices
    /\ \A K \in DOMAIN active_notes :
           Range(pair_voice_ids(active_notes[K])) \subseteq 0..(max_voices - 1)
    /\ \A K \in VTKeys : \A i \in DOMAIN press_ids[K] :
           press_ids[K][i] = (press_start[K] + i - 1) % max_voices
    /\ (last_op.op = "note_on" /\ last_op.fresh)
           => ret = <<(allocs - 2) % max_voices, (allocs - 1) % max_voices>>
    /\ \A v \in DOMAIN alloc_time : alloc_time[next_voice_id] <= alloc_time[v]
    /\ \A K \in VTKeys :
           (K \notin DOMAIN active_notes /\ allocs + 2 <= MaxAllocs)
               => ENABLED (\E a \in VTArgs : VT_NoteOn(K, a))

\* The counter has wrapped: more identifiers are in use than the pool holds
C6_Witness ==
    /\ last_op.op = "note_on"
    /\ last_op.fresh
    /\ allocs > max_voices
    /\ voice_count > max_voices
    /\ max_voices > 1

(***************************************************************************)
(* Properties of the borrower (checked under SpecKM)                       *)
(***************************************************************************)

\* The octaves above key K, however far, whose key is in the range and matched
MatchedOctaves(K) ==
    {k \in 1..11 : K + 12 * k <= highest_midi /\ get_match(K + 12 * k) # None}

\* C9: for a key K without a direct match, borrow(K) is the match of K + 12k
\* for the smallest k >= 1 with K + 12k in the range and matched, with
\* original_midi = K, borrowed_midi = K + 12k, octaves_borrowed = k and the
\* harmonic number of that key's match; it is None only if there is no such k.
C9_SmallestOctave ==
    (last_op.op = "borrow" /\ get_harmonic(last_op.note) = NoHarmonic) =>
        LET K == last_op.note
        IN  IF MatchedOctaves(K) = {} THEN ret = None
            ELSE LET k == Min(MatchedOctaves(K))
                     m == get_match(K + 12 * k)
                 IN  /\ ret # None
                     /\ ret.original_midi = K
                     /\ ret.borrowed_midi = K + 12 * k
                     /\ ret.octaves_borrowed = k
                     /\ ret.harmonic_n = m.harmonic_n

\* A key borrowed from two or more octaves up, the octaves between unmatched
C9_Witness ==
    /\ last_op.op = "borrow"
    /\ ret # None
    /\ ret.octaves_borrowed >= 2
    /\ get_match(last_op.note + 12) = None
    /\ ret.borrowed_midi = last_op.note + 12 * ret.octaves_borrowed

(***************************************************************************)
(* Properties of the engine (checked under Spec)                           *)
(***************************************************************************)

\* Key K is a latched pad: an upper-half pad of split pad mode that is toggled on
Latched(K) ==
    LET p == pad_harmonic(K)
    IN  p.upper /\ p.n \in toggled_harmonics

\* C1: a key has a VoiceSet only while it is held (latched upper-half pads of
\* split pad mode excepted): after its key-up, whatever note-ons, note-offs,
\* control changes and mode toggles came before, the key has no VoiceSet.
C1_VoiceSetOnlyWhileHeld ==
    \A K \in DOMAIN active_notes : K \in held \/ Latched(K)

C8_DirectMatchWins ==
    /\ \A K \in MidiNotes : get_harmonic(K) # NoHarmonic => borrow(K) = None
    /\ (last_op.op = "note_on" /\ last_op.consulted) => get_match(last_op.note) = None
    /\ (/\ last_op.op = "note_on"
        /\ ~pad_mode_enabled
        /\ last_op.note \in DOMAIN active_notes
        /\ get_match(last_op.note) # None)
           => active_notes[last_op.note].harmonic_ns[1] = get_match(last_op.note).harmonic_n

\* A key with a direct match sounds it although the octave above is matched too
C8_Witness ==
    /\ last_op.op = "note_on"
    /\ ~pad_mode_enabled
    /\ ~last_op.consulted
    /\ last_op.note \in DOMAIN active_notes
    /\ get_match(last_op.note) # None
    /\ borrow_loop(last_op.note, 1) # None
    /\ borrow_loop(last_op.note, 1).harmonic_n # active_notes[last_op.note].harmonic_ns[1]

\* The step is a keyboard-mode note-on of a key with no match and no borrow
SilentKeyStep ==
    /\ last_op'.op = "note_on"
    /\ last_op'.note \notin {PANIC_NOTE, PAD_MODE_TOGGLE_NOTE}
    /\ ~pad_mode_enabled
    /\ get_match(last_op'.note) = None
    /\ borrow(last_op'.note) = None

\* C10: a keyboard-mode note-on of a key that has neither a direct match nor a
\* borrowable octave changes nothing: no identifier is allocated, no VoiceSet
\* and no LFO is created, nothing is sent, and the engine keeps running.
C10_SilentNoOp ==
    [][SilentKeyStep =>
        /\ UNCHANGED <<active_notes, next_voice_id, last_played_note, note_lfos>>
        /\ emitted' = <<>>
        /\ running' = running
    ]_vars

\* Such a key was pressed while another key was sounding
C10_Witness ==
    /\ last_op.op = "note_on"
    /\ last_op.note \notin {PANIC_NOTE, PAD_MODE_TOGGLE_NOTE}
    /\ ~pad_mode_enabled
    /\ last_op.consulted
    /\ get_match(last_op.note) = None
    /\ borrow(last_op.note) = None
    /\ last_op.note \in held
    /\ last_op.note \notin DOMAIN active_notes
    /\ active_notes # EmptyDict
    /\ emitted = <<>>
    /\ running

\* The position, in milli-cents above the anchor, of harmonic n folded down by
\* k octaves, and of key K
FoldedCents(n, k) == harmonic_to_cents(n) - 1200000 * k
KeyCents(K)       == (K - anchor_midi) * 100000

Admitted(K) ==
    {n \in 1..Min({MAX_HARMONIC, MAX_FREQ_HZ \div km_f1}) :
        /\ km_f1 * n <= MAX_FREQ_HZ
        /\ Abs(KeyCents(K) - harmonic_to_cents(n)) <= tolerance_cents}

\* C12: for every key K of the keyboard range, get_all_matches(K) lists, in
\* ascending order of n, exactly the harmonics n of 1..max_harmonic with
\* f1 * n <= 20000 Hz whose distance in cents from K (relative to the anchor)
\* is at most the tolerance, above or below.
C12_ExactlyTheAdmitted ==
    (last_op.op = "lookup" /\ last_op.note \in lowest_midi..highest_midi)
        => LET ms == ret.all_matches
           IN  /\ \A i \in 1..(Len(ms) - 1) : ms[i].harmonic_n < ms[i + 1].harmonic_n
               /\ {ms[i].harmonic_n : i \in DOMAIN ms} = Admitted(last_op.note)
               /\ \A i \in DOMAIN ms :
                      /\ ms[i].midi_note = last_op.note
                      /\ ms[i].beacon_frequency = km_f1 * ms[i].harmonic_n
                      /\ ms[i].deviation_cents
                             = KeyCents(last_op.note) - harmonic_to_cents(ms[i].harmonic_n)

\* A key is looked up that has a match above it and a match below it
C12_Witness ==
    /\ last_op.op = "lookup"
    /\ last_op.note \in lowest_midi..highest_midi
    /\ \E i, j \in DOMAIN ret.all_matches :
           /\ ret.all_matches[i].deviation_cents < 0
           /\ ret.all_matches[j].deviation_cents > 0

\* The mapper has the parameters of the test fixtures: f1 = 54 Hz, anchor 24
Fixture(tol) == km_f1 = 54000 /\ anchor_midi = 24 /\ tolerance_cents = tol

\* C13: with f1 = 54 Hz and anchor 24, at tolerance 25 cents the keys 24, 36,
\* 43, 48, 52, 55, 60 map to the harmonics 1, 2, 3, 4, 5, 6, 8 (beacon
\* frequency 54 Hz times the harmonic) and key 58 has no match; at tolerance
\* 35 cents key 58 maps to harmonic 7; at tolerance 1 cent no key of 25..35
\* matches while 24, 36, 48, 60 still map to 1, 2, 4, 8.
C13_FixtureValues ==
    /\ Fixture(25000) =>
          /\ get_harmonic(24) = 1 /\ get_harmonic(36) = 2
          /\ get_harmonic(43) = 3 /\ get_harmonic(48) = 4
          /\ get_harmonic(52) = 5 /\ get_harmonic(55) = 6
          /\ get_harmonic(60) = 8
          /\ get_harmonic(58) = NoHarmonic
          /\ get_match(58) = None
          /\ get_beacon_frequency(24) = 54000
          /\ get_beacon_frequency(36) = 108000
          /\ get_beacon_frequency(43) = 162000
          /\ get_beacon_frequency(48) = 216000
          /\ get_beacon_frequency(52) = 270000
    /\ Fixture(35000) => get_harmonic(58) = 7
    /\ Fixture(1000) =>
          /\ \A K \in 25..35 : get_harmonic(K) = NoHarmonic
          /\ get_harmonic(24) = 1 /\ get_harmonic(36) = 2
          /\ get_harmonic(48) = 4 /\ get_harmonic(60) = 8
    /\ (last_op.op = "lookup" /\ last_op.note = 58) =>
          /\ Fixture(25000) => ret.harmonic = NoHarmonic
          /\ Fixture(35000) => ret.harmonic = 7

\* Key 58 is looked up after the tolerance was widened from 25 to 35 cents
C13_Witness ==
    /\ Fixture(35000)
    /\ last_op.op = "lookup"
    /\ last_op.note = 58
    /\ ret.harmonic = 7
    /\ ret.match.deviation_cents > 25000

\* The key just looked up has at least one match
LookupWithMatch == last_op.op = "lookup" /\ ret.all_matches # <<>>

\* C14: for every key with at least one match, the match that get_match,
\* get_harmonic and get_beacon_frequency return is the one with the smallest
\* absolute deviation in cents among all the matches of the key.
C14_ClosestMatch ==
    LookupWithMatch =>
        /\ \A i \in DOMAIN ret.all_matches :
               Abs(ret.match.deviation_cents) <= Abs(ret.all_matches[i].deviation_cents)
        /\ ret.harmonic = ret.match.harmonic_n
        /\ ret.beacon_frequency = km_f1 * ret.match.harmonic_n

\* C14 as amended: for every key with at least one match, the match that
\* get_match, get_harmonic and get_beacon_frequency return is the one with the
\* lowest harmonic number among all the matches of the key (the first of the
\* list get_all_matches returns), whatever its deviation.
C14_LowestMatch ==
    LookupWithMatch =>
        /\ \A i \in DOMAIN ret.all_matches :
               ret.match.harmonic_n <= ret.all_matches[i].harmonic_n
        /\ ret.match = ret.all_matches[1]
        /\ ret.harmonic = ret.match.harmonic_n
        /\ ret.beacon_frequency = km_f1 * ret.match.harmonic_n

\* A key is looked up whose lowest match is not its nearest
C14_Witness ==
    /\ LookupWithMatch
    /\ \E i \in DOMAIN ret.all_matches :
           /\ ret.all_matches[i].harmonic_n > ret.harmonic
           /\ Abs(ret.all_matches[i].deviation_cents) < Abs(ret.match.deviation_cents)

\* C15: after any sequence of rebuild calls, each changing any subset of f1,
\* anchor and tolerance, the table is the one a freshly built mapper with the
\* current f1, anchor and tolerance holds (computed anew, key by key, in the
\* states the mapper is built or rebuilt in), so that every lookup and every
\* borrow returns what the fresh mapper would return; lookups and borrows
\* leave the mapper as it is.
C15_TableIsFresh ==
    /\ mapping = build_mapping(km_f1, anchor_midi, tolerance_cents)
    /\ last_op.op \in {"init", "rebuild"} =>
           \A K \in lowest_midi..highest_midi :
               mapping[K] = build_key(km_f1, anchor_midi, tolerance_cents, K)
    /\ last_op.op = "lookup" =>
           /\ ret.harmonic = get_harmonic(last_op.note)
           /\ ret.match = get_match(last_op.note)
           /\ ret.all_matches = get_all_matches(last_op.note)
           /\ ret.beacon_frequency = get_beacon_frequency(last_op.note)
    /\ last_op.op = "borrow" => ret = borrow(last_op.note)

\* A rebuild has changed the tolerance alone and key 58 has gained its match
C15_Witness ==
    /\ last_op.op = "rebuild"
    /\ last_op.changed = {"tolerance_cents"}
    /\ Fixture(35000)
    /\ get_harmonic(58) = 7

(***************************************************************************)
(* Properties of the F1Modulator (checked under SpecF1 and SpecF1Live)     *)
(***************************************************************************)

\* C16: for a smoothing rate in (0, 1] and a fixed target, an update moves the
\* current value toward the target without overshoot: the sign of
\* (target - current) does not flip and |target - current| does not increase
\* (it decreases whenever the step is at least one milli-Hz).
C16_NoOvershoot ==
    [][last_op'.op = "update" =>
          LET d  == f1_target - f1_value
              d2 == f1_target' - f1_value'
          IN  /\ f1_rate \in 1..1000
              /\ f1_target' = f1_target
              /\ d >= 0 => d2 >= 0
              /\ d <= 0 => d2 <= 0
              /\ Abs(d2) <= Abs(d)
              /\ Abs(d) * f1_rate >= 1000 => Abs(d2) < Abs(d)]_vars

\* An update has moved the value down by more than 0.01 Hz and the target is
\* still below it
C16_Witness ==
    /\ last_op.op = "update"
    /\ ret = [changed |-> TRUE]
    /\ f1_value < last_op.old_value
    /\ f1_target < f1_value
    /\ f1_rate < 1000

\* From some point on the target is not changed any more
TargetSettles == <>[][f1_target' = f1_target]_vars

\* C17: if the target stops changing, then after finitely many passes of the
\* loop the modulator is stable (|current - target| < 0.01 Hz) for good; and a
\* stable modulator stays stable over every step that leaves the target as it
\* is.
C17_EventuallyStable ==
    /\ TargetSettles => <>[]is_stable
    /\ [][(is_stable /\ f1_target' = f1_target) => is_stable']_vars

\* The value has been brought from elsewhere to within 0.01 Hz of a target
\* that it does not equal
C17_Witness ==
    /\ last_op.op = "update"
    /\ n_ccs > 0
    /\ is_stable
    /\ f1_value # f1_target
    /\ Abs(last_op.old_value - f1_target) >= 10

\* A frequency lies in the modulator's range
InRange(f) == F1_MIN <= f /\ f <= F1_MAX

\* C18: in every reachable state the F1 target lies in [min, max];
\* set_target_from_cc maps the control values 0..127 linearly onto [min, max]
\* (0 to min, 127 to max), set_target clamps any frequency into [min, max], a
\* re-anchoring by the secondary controller sets f1 to a value in [min, max];
\* and the current value, once inside [min, max], never leaves it.
C18_F1InRange ==
    /\ [](/\ InRange(f1_target)
          /\ \A cc_value \in 0..127 :
                 /\ InRange(set_target_from_cc(cc_value))
                 /\ 127 * (set_target_from_cc(cc_value) - F1_MIN)
                        <= cc_value * (F1_MAX - F1_MIN)
                 /\ cc_value * (F1_MAX - F1_MIN)
                        < 127 * (set_target_from_cc(cc_value) + 1 - F1_MIN)
          /\ set_target_from_cc(0) = F1_MIN
          /\ set_target_from_cc(127) = F1_MAX
          /\ last_op.op = "set_target_from_cc" =>
                 f1_target = set_target_from_cc(last_op.cc_value)
          /\ last_op.op = "set_target" =>
                 f1_target = IF last_op.frequency < F1_MIN THEN F1_MIN
                             ELSE IF last_op.frequency > F1_MAX THEN F1_MAX
                             ELSE last_op.frequency
          /\ last_op.op = "modulation_note" =>
                 InRange(f1_value) /\ f1_target = f1_value /\ km_f1 = f1_value)
    /\ [][InRange(f1_value) => InRange(f1_value')]_vars

(***************************************************************************)
(* Properties of the run loop (checked under SpecPlay)                     *)
(***************************************************************************)

\* The messages of a kind among those just sent, in the order they were sent
Sent(kind) == SelectSeq(emitted, LAMBDA m : m.type = kind)

\* The identifier belongs to a voice of the tracker
Sounding(voice_id) ==
    \E K \in DOMAIN active_notes : voice_id \in Range(active_notes[K].voice_ids)

\* C19: within a pass of the loop the F1 update and the re-tune of the active
\* voices come first, then the LFO sweep, and only then the events: the part
\* of the pass before the events sends the re-tune messages, computed with the
\* updated f1, ahead of the LFO messages, sends them for voices that sounded
\* before the pass and leaves the tracker and the keys as they were; the
\* handling of a note-on or note-off neither moves f1 nor sends a pitch message.
C19_TickOrder ==
    [][/\ last_op'.op = "tick" =>
            /\ emitted' = Sent("pitch")' \o Sent("lfo_pitch")'
            /\ \A i \in DOMAIN emitted' : Sounding(emitted'[i].voice_id)
            /\ \A i \in DOMAIN Sent("pitch")' :
                   \E K \in DOMAIN active_notes :
                       \E j \in DOMAIN active_notes[K].voice_ids :
                           /\ j <= Len(active_notes[K].harmonic_ns)
                           /\ Sent("pitch")'[i].voice_id = active_notes[K].voice_ids[j]
                           /\ Sent("pitch")'[i].to
                                  = f1_value' * active_notes[K].harmonic_ns[j]
            /\ Sent("pitch")' # <<>> => f1_value' # f1_value
            /\ UNCHANGED <<vt_vars, held, km_vars, f1_target>>
       /\ last_op'.op \in {"note_on", "note_off"} =>
            /\ f1_value' = f1_value
            /\ Sent("pitch")' = <<>>
            /\ Sent("lfo_pitch")' = <<>>]_vars

\* A pass has sent re-tune messages and LFO messages
C19_Witness ==
    /\ last_op.op = "tick"
    /\ Sent("pitch") # <<>>
    /\ Sent("lfo_pitch") # <<>>

\* The step is a pass of the loop in which the active voices are re-tuned
RetuneStep ==
    /\ last_op'.op = "tick"
    /\ f1_update.changed
    /\ active_count > 0

\* C20: the re-tune of the active voices after an f1 change sends pitch
\* messages only, exactly one for each voice identifier of every active key,
\* and no note-on or note-off; it leaves the tracker as it was (active keys,
\* their identifiers, stored frequencies and harmonic numbers, the counter).
C20_RetuneFrame ==
    [][RetuneStep =>
          /\ \A i \in DOMAIN emitted' : emitted'[i].type \in {"pitch", "lfo_pitch"}
          /\ \A K \in DOMAIN active_notes :
                 \A j \in DOMAIN active_notes[K].voice_ids :
                     Cardinality({i \in DOMAIN Sent("pitch")' :
                                     Sent("pitch")'[i].voice_id
                                         = active_notes[K].voice_ids[j]}) = 1
          /\ \A i \in DOMAIN Sent("pitch")' : Sounding(Sent("pitch")'[i].voice_id)
          /\ UNCHANGED vt_vars]_vars

(***************************************************************************)
(* The events of one pass of the loop, and the functions called on their   *)
(* own: every run makes one call from the engine at rest                   *)
(***************************************************************************)

\* At most this many messages arrive between two passes
MaxArrivals == 3

\* MidiHandler._ports of the primary input, in the order open() appended
\* them, and of the secondary controller
PrimaryPorts   == <<1, 2>>
SecondaryPorts == <<3>>

\* Messages as mido decodes them. control is the function the controller
\* number is configured for ("other": none); data is the velocity or the value.
PolledMsgs ==
    { [type |-> "note_on",        control |-> "",      data |-> 100],
      [type |-> "note_on",        control |-> "",      data |-> 0],
      [type |-> "control_change", control |-> "f1",    data |-> 64],
      [type |-> "control_change", control |-> "panic", data |-> 0] }

\* The messages that arrived since the last pass, oldest first, each with the
\* port it arrived on
Arrivals ==
    UNION { [1..n -> [port : Range(PrimaryPorts) \cup Range(SecondaryPorts),
                      msg  : PolledMsgs]] : n \in 1..MaxArrivals }

\* The arrivals with their position in the order of arrival
Stamped(arrived) ==
    [i \in DOMAIN arrived |-> [port |-> arrived[i].port, msg |-> arrived[i].msg, at |-> i]]

\* port.iter_pending(): the messages waiting on a port, oldest first
iter_pending(pending, port) == SelectSeq(pending, LAMBDA a : a.port = port)

\* A poll that reads the ports from the last opened to the first
RECURSIVE poll_last_port_first(_, _)
poll_last_port_first(pending, ports) ==
    IF ports = <<>> THEN <<>>
    ELSE poll_last_port_first(pending, Tail(ports)) \o iter_pending(pending, Head(ports))

\* MidiHandler.poll: all_messages.extend(list(port.iter_pending())) for each
\* port in turn
RECURSIVE poll(_, _)
poll(pending, ports) ==
    IF ports = <<>> THEN <<>>
    ELSE iter_pending(pending, Head(ports)) \o poll(pending, Tail(ports))

is_note_on(msg)  == msg.type = "note_on" /\ msg.data > 0
is_note_off(msg) == msg.type = "note_off" \/ (msg.type = "note_on" /\ msg.data = 0)
is_control(msg, name) == msg.type = "control_change" /\ msg.control = name

\* run(): the if/elif chain over a message of the primary input; the handlers
\* called for it, in order
dispatch(msg) ==
    IF is_note_on(msg) THEN <<"_handle_note_on">>
    ELSE IF is_note_off(msg) THEN <<"_handle_note_off">>
    ELSE IF is_control(msg, "f1") THEN <<"_handle_f1_change">>
    ELSE IF is_control(msg, "tolerance") THEN <<"_handle_tolerance_change">>
    ELSE IF is_control(msg, "lfo_rate") THEN <<"_handle_lfo_rate_change">>
    ELSE IF is_control(msg, "vibrato_mode") THEN <<"_handle_vibrato_mode_toggle">>
    ELSE IF is_control(msg, "multi_harmonic") THEN <<"_handle_multi_harmonic_toggle">>
    ELSE IF is_control(msg, "max_harmonics") THEN <<"_handle_max_harmonics_change">>
    ELSE IF is_control(msg, "primary_lock") THEN <<"_handle_primary_lock_toggle">>
    ELSE IF is_control(msg, "harmonic_mix") THEN <<"_handle_harmonic_mix_change">>
    ELSE IF is_control(msg, "natural_harmonics") THEN <<"_handle_natural_harmonics_toggle">>
    ELSE IF is_control(msg, "natural_level") THEN <<"_handle_natural_level_change">>
    ELSE IF is_control(msg, "panic") /\ msg.data > 0 THEN <<"panic">>
    ELSE IF is_control(msg, "split_mode") THEN <<"_handle_split_mode_toggle">>
    ELSE <<>>

\* run(): the chain over a message of the secondary controller
dispatch_secondary(msg) ==
    IF is_note_on(msg) THEN <<"_handle_modulation_note">>
    ELSE IF is_control(msg, "f1") THEN <<"_handle_f1_change">>
    ELSE <<>>

\* The handler calls of a batch, in the order they are made
RECURSIVE calls(_, _)
calls(batch, secondary) ==
    IF batch = <<>> THEN <<>>
    ELSE LET a == Head(batch)
             h == IF secondary THEN dispatch_secondary(a.msg) ELSE dispatch(a.msg)
         IN  [i \in DOMAIN h |-> [handler |-> h[i], at |-> a.at, port |-> a.port]]
                 \o calls(Tail(batch), secondary)

\* run(): the events of a pass: for msg in self.midi.poll(), then for msg in
\* self.secondary_midi.poll()
run_events(arrived) ==
    calls(poll(Stamped(arrived), PrimaryPorts), FALSE)
        \o calls(poll(Stamped(arrived), SecondaryPorts), TRUE)

\* One pass reads the ports and handles what it read
Run_Events(arrived) ==
    /\ last_op.op = "init"
    /\ last_op' = [op |-> "events", arrived |-> arrived]
    /\ ret' = [handled |-> run_events(arrived)]
    /\ UNCHANGED <<km_vars, vt_vars, hist_vars, eng_vars>>

\* What a call that returns nothing else leaves alone
CallFrame == UNCHANGED <<km_vars, vt_vars, hist_vars, eng_vars>>

\* raise ValueError(...)
ValueError == [raised |-> "ValueError"]

\* The largest harmonic number reduced
MaxReduced == 4100

\* The loop of octave_reduce with the test ratio > 2.0
RECURSIVE reduce_loop_closed(_, _, _)
reduce_loop_closed(num, den, x) ==
    IF num > 2 * den THEN reduce_loop_closed(num, 2 * den, x + 1)
    ELSE [ratio |-> [num |-> num, den |-> den], x |-> x]

\* octave_reduce: while ratio >= 2.0: ratio /= 2.0; x += 1. The ratio is the
\* fraction num/den; halving a float below 2^53 is exact.
RECURSIVE reduce_loop(_, _, _)
reduce_loop(num, den, x) ==
    IF num >= 2 * den THEN reduce_loop(num, 2 * den, x + 1)
    ELSE [ratio |-> [num |-> num, den |-> den], x |-> x]

\* harmonics.octave_reduce
octave_reduce(n) ==
    IF n <= 0 THEN ValueError ELSE reduce_loop(n, 1, 0)

Call_octave_reduce(n) ==
    /\ last_op.op = "init"
    /\ last_op' = [op |-> "octave_reduce", n |-> n]
    /\ ret' = octave_reduce(n)
    /\ CallFrame

\* Frequencies in milli-Hz and harmonic numbers given to the conversions
GivenFreqs     == {-440000, -1, 0, 1, 32500, 440000, 20000000}
GivenHarmonics == {-1, 0, 1, 2, 3, 640}

\* The real number log2(num/den), which exists when num/den > 0
Log2(num, den) == [log2 |-> <<num, den>>]

\* harmonics.frequency_to_midi_float: MIDI_A4 + 12.0 * math.log2(freq / FREQ_A4)
frequency_to_midi_float(freq) ==
    IF freq <= 0 THEN ValueError
    ELSE [value |-> [base |-> 69, times |-> 12, of |-> Log2(freq, 440000)]]

\* A cents_difference that checks its first argument only
cents_difference_half_checked(freq1, freq2) ==
    IF freq1 <= 0 THEN ValueError
    ELSE [value |-> [base |-> 0, times |-> 1200, of |-> Log2(freq2, freq1)]]

\* harmonics.cents_difference: 1200.0 * math.log2(freq2 / freq1)
cents_difference(freq1, freq2) ==
    IF freq1 <= 0 \/ freq2 <= 0 THEN ValueError
    ELSE [value |-> [base |-> 0, times |-> 1200, of |-> Log2(freq2, freq1)]]

\* harmonics.harmonic_to_cents with its check of the argument
harmonic_to_cents_checked(n) ==
    IF n < 1 THEN ValueError ELSE [value |-> harmonic_to_cents(n)]

Call_frequency_to_midi_float(freq) ==
    /\ last_op.op = "init"
    /\ last_op' = [op |-> "frequency_to_midi_float", freq |-> freq]
    /\ ret' = frequency_to_midi_float(freq)
    /\ CallFrame

Call_cents_difference(freq1, freq2) ==
    /\ last_op.op = "init"
    /\ last_op' = [op |-> "cents_difference", freq1 |-> freq1, freq2 |-> freq2]
    /\ ret' = cents_difference(freq1, freq2)
    /\ CallFrame

Call_harmonic_to_cents(n) ==
    /\ last_op.op = "init"
    /\ last_op' = [op |-> "harmonic_to_cents", n |-> n]
    /\ ret' = harmonic_to_cents_checked(n)
    /\ CallFrame

\* harmonics.find_harmonics_for_key: every n of 1 .. max_harmonic is tried
find_harmonics_for_key(semitones_from_anchor, tol, max_harmonic) ==
    LET key_cents == semitones_from_anchor * 100000
    IN  SelectSeq([n \in 1..max_harmonic |-> n],
                  LAMBDA n : Abs(harmonic_to_cents(n) - key_cents) <= tol)

\* The anchors of the searches compared: those of the mapper runs and C-1
SearchAnchors == Anchors \cup {0}

\* The largest harmonic searched exhaustively. A harmonic above it lies over
\* 20 kHz for every f1 of the model (32.5 Hz * 641 = 20.8 kHz).
SearchedHarmonics == Len(HCentsTable)

\* Both searches for one key: the scan of _build_mapping and the exhaustive one
Call_find_harmonics(f1, anchor, tol, midi) ==
    /\ last_op.op = "init"
    /\ last_op' = [op |-> "find_harmonics", f1 |-> f1, anchor |-> anchor, tol |-> tol,
                   midi |-> midi]
    /\ ret' = [scan       |-> build_key(f1, anchor, tol, midi),
               exhaustive |-> find_harmonics_for_key(midi - anchor, tol, SearchedHarmonics)]
    /\ CallFrame

\* The LFOs updated on their own: two or three candidates, either mode, any
\* phase; the steps include none and more than a cycle
CandidateLists == {<<65000, 130000>>, <<520000, 585000, 650000>>}
LfoSteps       == 0..(PhaseRes + 1)

Call_lfo_update(frequencies, mode, phase, dphase) ==
    LET lfo == [rate |-> lfo_rate, mode |-> mode, phase |-> phase,
                frequencies |-> frequencies]
    IN  /\ last_op.op = "init"
        /\ last_op' = [op |-> "lfo_update", lfo |-> lfo, dphase |-> dphase]
        /\ ret' = lfo_update(lfo, dphase)
        /\ CallFrame

InitCalls == KM_Init /\ TrackerIdle /\ EngineIdle

NextCalls ==
    \/ \E arrived \in Arrivals : Run_Events(arrived)
    \/ \E n \in (-2)..MaxReduced : Call_octave_reduce(n)
    \/ \E freq \in GivenFreqs : Call_frequency_to_midi_float(freq)
    \/ \E freq1 \in GivenFreqs, freq2 \in GivenFreqs : Call_cents_difference(freq1, freq2)
    \/ \E n \in GivenHarmonics : Call_harmonic_to_cents(n)
    \/ \E f1 \in F1Values, anchor \in SearchAnchors,
          tol \in {TOLERANCE_MIN, DEFAULT_TOLERANCE, TOLERANCE_MAX},
          midi \in lowest_midi..highest_midi : Call_find_harmonics(f1, anchor, tol, midi)
    \/ \E frequencies \in CandidateLists, mode \in {"SMOOTH", "STEPPED"},
          phase \in 0..(PhaseRes - 1), dphase \in LfoSteps :
          Call_lfo_update(frequencies, mode, phase, dphase)

SpecCalls == InitCalls /\ [][NextCalls]_vars

\* The position of a port in the order the loop reads the ports
ReadOrder(port) == CHOOSE i \in 1..3 : (PrimaryPorts \o SecondaryPorts)[i] = port

\* The message has a handler in the chain of its input
HasHandler(a) ==
    IF a.port \in Range(SecondaryPorts) THEN dispatch_secondary(a.msg) # <<>>
    ELSE dispatch(a.msg) # <<>>

\* C21 as stated: the events of a pass are handled in the order in which they
\* arrived, each by exactly one handler.
C21_ArrivalOrder ==
    last_op.op = "events" =>
        /\ \A i, j \in DOMAIN ret.handled : i < j => ret.handled[i].at < ret.handled[j].at
        /\ \A k \in DOMAIN last_op.arrived :
               Cardinality({i \in DOMAIN ret.handled : ret.handled[i].at = k}) = 1

\* C21, amended: the events of a pass are handled one at a time, those of one
\* port in the order in which they arrived, the ports of the primary input in
\* the order they were opened and before the secondary controller; an event
\* is handled by the first handler of the chain that matches it and by no
\* other, and an event no handler matches is dropped.
C21_PortOrder ==
    last_op.op = "events" =>
        /\ \A i, j \in DOMAIN ret.handled : i < j =>
               \/ ReadOrder(ret.handled[i].port) < ReadOrder(ret.handled[j].port)
               \/ /\ ret.handled[i].port = ret.handled[j].port
                  /\ ret.handled[i].at < ret.handled[j].at
        /\ \A k \in DOMAIN last_op.arrived :
               Cardinality({i \in DOMAIN ret.handled : ret.handled[i].at = k})
                   = IF HasHandler(last_op.arrived[k]) THEN 1 ELSE 0
        /\ \A i \in DOMAIN ret.handled :
               ret.handled[i].port = last_op.arrived[ret.handled[i].at].port

\* Two ports of the primary input and the secondary controller had an event
\* each, all three were handled, and the first to arrive was handled last
C21_Witness ==
    /\ last_op.op = "events"
    /\ Len(ret.handled) = 3
    /\ {ret.handled[i].port : i \in 1..3} = {1, 2, 3}
    /\ ret.handled[3].at = 1

(***************************************************************************)
(* Cancellation of the loop                                                *)
(***************************************************************************)

\* main(): signal_handler sets beacon.running = False, at any point of a pass
signal_handler ==
    /\ run_pc = "loop"
    /\ running
    /\ running' = FALSE
    /\ emitted' = <<>>
    /\ on_ids' = heard(on_ids, emitted')
    /\ UNCHANGED mpe_vars
    /\ last_op' = [op |-> "signal"]
    /\ UNCHANGED <<km_vars, vt_vars, ret, hist_vars, run_pc, f1_vars, set_vars, mode_vars,
                   note_lfos, held, n_note_ons, n_ccs, n_ticks>>

\* run(): while self.running fails at the end of a pass; finally: self.stop().
\* after: the step before it; cleared: the keys that were sounding.
run_exit ==
    /\ run_pc = "loop"
    /\ ~running
    /\ Apply(stop(Cur))
    /\ last_op' = [op |-> "stop", after |-> last_op.op, cleared |-> active_count]
    /\ UNCHANGED <<km_vars, max_voices, ret, hist_vars, f1_vars, set_vars, held,
                   n_note_ons, n_ccs, n_ticks>>

NextRun ==
    \/ Next
    \/ signal_handler
    \/ run_exit

SpecRun == Init /\ [][NextRun]_vars

\* C22: cancellation is cooperative and graceful. Once the run flag is
\* cleared the loop still handles the events of the pass in progress but
\* starts no further pass and the flag stays cleared; the step that leaves the
\* loop sends an all-voices-off, which no note-on or pitch message follows,
\* and empties the tracker; after it nothing is sent or changed.
C22_GracefulStop ==
    [][/\ (~running /\ run_pc = "loop") =>
            /\ last_op'.op # "tick"
            /\ ~running'
       /\ (run_pc = "loop" /\ run_pc' = "returned") =>
            /\ ~running'
            /\ active_notes' = EmptyDict
            /\ \E i \in DOMAIN emitted' :
                   /\ emitted'[i] = AllNotesOffMsg
                   /\ \A j \in DOMAIN emitted' :
                          j > i => emitted'[j].type \notin {"note_on", "pitch", "lfo_pitch"}
       /\ run_pc # "returned"]_vars

\* The flag was cleared while keys were sounding, a note-on of the pass in
\* progress was still handled, and the loop was left with the sweep
C22_Witness ==
    /\ last_op.op = "stop"
    /\ last_op.after = "note_on"
    /\ last_op.cleared > 0
    /\ run_pc = "returned"
    /\ emitted = <<AllNotesOffMsg>>
    /\ active_notes = EmptyDict

(***************************************************************************)
(* The chorus LFOs                                                         *)
(***************************************************************************)

\* C23: the keys that own a chorus LFO are among the keys that have a
\* VoiceSet in the tracker: an LFO is created only by a note-on that sounds,
\* and every operation that removes a key's VoiceSet (note-off, latch-off,
\* panic, split-mode toggle) removes its LFO.
C23_LfoOwnersSound == DOMAIN note_lfos \subseteq DOMAIN active_notes

\* A HarmonicLFO fresh from __init__, before set_harmonics: no candidate
bare_lfo(phase) == [rate |-> lfo_rate, mode |-> vibrato_mode, phase |-> phase,
                    frequencies |-> <<>>]

\* update() on the LFO returns this one frequency and leaves the phase alone
Still(lfo, freq) ==
    \A dphase \in PhaseSteps :
        lfo_update(lfo, dphase)
            = [phase |-> lfo.phase, freq |-> [lower |-> freq, upper |-> freq, frac |-> 0]]

\* C24: an LFO with one candidate returns that candidate from every update,
\* whatever the time step, rate and mode, and one with no candidate returns
\* 440 Hz; neither advances its phase, and the sweep of a pass of the loop
\* leaves the LFO of such a key as it is and sends no LFO pitch message for it.
C24_SingleCandidateStill ==
    [][last_op'.op = "tick" =>
          /\ \A phase \in 0..(PhaseRes - 1) : Still(bare_lfo(phase), 440000)
          /\ \A K \in DOMAIN note_lfos :
                 Len(note_lfos[K].frequencies) <= 1 =>
                     /\ Still(note_lfos[K], note_lfos[K].frequencies[1])
                     /\ note_lfos'[K] = note_lfos[K]
                     /\ K \in DOMAIN active_notes =>
                            \A i \in DOMAIN Sent("lfo_pitch")' :
                                Sent("lfo_pitch")'[i].voice_id
                                    \notin Range(active_notes[K].voice_ids)]_vars

\* A pass swept the LFO of a key with several candidates while a key with a
\* single candidate was sounding
C24_Witness ==
    /\ last_op.op = "tick"
    /\ Sent("lfo_pitch") # <<>>
    /\ \E K \in DOMAIN note_lfos \cap DOMAIN active_notes :
           Len(note_lfos[K].frequencies) = 1

\* C25: octave_reduce(n) for a harmonic number n >= 1 ends and returns a
\* ratio and a count x with 1 <= ratio < 2, x >= 0 and ratio * 2^x = n; for
\* n <= 0 it raises ValueError.
C25_OctaveReduce ==
    last_op.op = "octave_reduce" =>
        IF last_op.n <= 0 THEN ret = ValueError
        ELSE /\ DOMAIN ret = {"ratio", "x"}
             /\ ret.ratio.den >= 1
             /\ ret.ratio.den <= ret.ratio.num
             /\ ret.ratio.num < 2 * ret.ratio.den
             /\ ret.x >= 0
             /\ ret.ratio.num * Pow2(ret.x) = last_op.n * ret.ratio.den

\* 4096 = 2^12 was reduced to ratio 1 in twelve halvings
C25_Witness ==
    /\ last_op.op = "octave_reduce"
    /\ last_op.n = 4096
    /\ ret.x = 12
    /\ ret.ratio.num = ret.ratio.den

\* The call raised, or returned a value
Raised   == ret = ValueError
Returned == DOMAIN ret = {"value"}

\* C26: frequency_to_midi_float raises ValueError for a frequency <= 0,
\* cents_difference when either frequency is <= 0, harmonic_to_cents for
\* n < 1; with positive arguments each returns a value.
C26_DomainErrors ==
    /\ last_op.op = "frequency_to_midi_float" =>
           IF last_op.freq <= 0 THEN Raised ELSE Returned
    /\ last_op.op = "cents_difference" =>
           IF last_op.freq1 <= 0 \/ last_op.freq2 <= 0 THEN Raised ELSE Returned
    /\ last_op.op = "harmonic_to_cents" =>
           IF last_op.n < 1 THEN Raised
           ELSE Returned /\ ret.value >= 0

\* cents_difference raised for a positive first and a non-positive second
\* frequency
C26_Witness ==
    /\ last_op.op = "cents_difference"
    /\ last_op.freq1 > 0
    /\ last_op.freq2 <= 0
    /\ Raised

(***************************************************************************)
(* The secondary controller while keys sound                               *)
(***************************************************************************)

\* run(): a note-on of the secondary controller, handled inside the loop
modulation_note_on(note) ==
    /\ run_pc = "loop"
    /\ handle_modulation_note(note)

\* The notes played on the secondary controller: A2 and C4
PlayedModNotes == {45, 60}

NextMod ==
    \/ \E note \in EngineNotes, velocity \in Velocities : NoteOn(note, velocity)
    \/ \E note \in EngineNotes : NoteOff(note)
    \/ \E dphase \in PhaseSteps : Tick(dphase)
    \/ \E note \in PlayedModNotes : modulation_note_on(note)

SpecMod == InitPlay /\ [][NextMod]_vars

\* C27: a note-on of the secondary controller only re-anchors. It allocates
\* no identifier, creates and removes no VoiceSet and no LFO, and sends
\* nothing but pitch messages, all for identifiers of sounding voices;
\* afterwards the anchor has the pitch class of the note played, f1 has
\* jumped to its new value, and the mapper holds that f1 and anchor with a
\* table built from them.
C27_ModulationOnlyReanchors ==
    [][last_op'.op = "modulation_note" =>
          /\ UNCHANGED <<vt_vars, hist_vars, note_lfos, held, mode_vars>>
          /\ \A i \in DOMAIN emitted' :
                 /\ emitted'[i].type = "pitch"
                 /\ Sounding(emitted'[i].voice_id)
          /\ anchor_midi' % 12 = last_op'.note % 12
          /\ f1_target' = f1_value'
          /\ km_f1' = f1_value'
          /\ tolerance_cents' = tolerance_cents
          /\ mapping' = build_mapping(km_f1', anchor_midi', tolerance_cents')]_vars

\* The secondary controller moved the anchor to another pitch class while
\* voices were sounding, and they were re-tuned
C27_Witness ==
    /\ last_op.op = "modulation_note"
    /\ anchor_midi % 12 = 9
    /\ Sent("pitch") # <<>>
    /\ active_count > 0

(***************************************************************************)
(* Panic                                                                   *)
(***************************************************************************)

\* The step is a panic: the panic note, or the panic controller above 0
PanicStep ==
    \/ last_op'.op = "note_on" /\ last_op'.note = PANIC_NOTE
    \/ last_op'.op = "panic_cc"

\* C28: after a panic, from any state and in either mode, the tracker has no
\* active key, no LFO remains and no harmonic is latched; nothing is switched
\* on, and an all-voices-off is sent after the last note-off of the panic.
C28_PanicClears ==
    [][PanicStep =>
          /\ active_notes' = EmptyDict
          /\ note_lfos' = EmptyDict
          /\ toggled_harmonics' = {}
          /\ Sent("note_on")' = <<>>
          /\ emitted' # <<>>
          /\ emitted'[Len(emitted')] = AllNotesOffMsg]_vars

\* A panic released sounding voices
C28_Witness ==
    /\ last_op.op = "note_on"
    /\ last_op.note = PANIC_NOTE
    /\ Sent("note_off") # <<>>
    /\ active_notes = EmptyDict
    /\ note_lfos = EmptyDict

\* The harmonics of an exhaustive search that lie at or below 20 kHz
Audible(ns, f1) == SelectSeq(ns, LAMBDA n : f1 * n <= MAX_FREQ_HZ)

\* C29: the scan of the KeyMapper, which leaves its loop early, finds for a
\* key the harmonics that the exhaustive find_harmonics_for_key finds for the
\* key's distance from the anchor and the same tolerance, restricted to
\* f1 * n <= 20 kHz: neither break drops a harmonic within the tolerance.
C29_ScanFindsAll ==
    last_op.op = "find_harmonics" =>
        /\ [i \in DOMAIN ret.scan |-> ret.scan[i].n] = Audible(ret.exhaustive, last_op.f1)
        /\ \A i \in DOMAIN ret.scan :
               ret.scan[i].deviation
                   = (last_op.midi - last_op.anchor) * 100000
                         - harmonic_to_cents(ret.scan[i].n)

\* The scan found several harmonics for a key and stopped at 20 kHz, below
\* harmonics that the exhaustive search still finds
C29_Witness ==
    /\ last_op.op = "find_harmonics"
    /\ Len(ret.scan) >= 2
    /\ Len(ret.exhaustive) > Len(ret.scan)

\* C30: for an LFO with n >= 2 candidates the phase after every update lies
\* in [0, 1), the indices of the candidates read lie in 0 .. n-1 in both
\* modes, the stepped mode returns exactly one of the candidates, and every
\* index 0 .. n-1 is returned by the stepped mode for some phase.
C30_LfoIndices ==
    last_op.op = "lfo_update" =>
        LET lfo == last_op.lfo
            n   == Len(lfo.frequencies)
        IN  /\ ret.phase \in 0..(PhaseRes - 1)
            /\ ret.idx[1] \in 0..(n - 1)
            /\ ret.idx[2] \in 0..(n - 1)
            /\ ret.freq.lower = lfo.frequencies[ret.idx[1] + 1]
            /\ ret.freq.upper = lfo.frequencies[ret.idx[2] + 1]
            /\ lfo.mode = "STEPPED" =>
                   /\ ret.idx[1] = ret.idx[2]
                   /\ ret.freq.frac = 0
                   /\ ret.freq.lower \in Range(lfo.frequencies)
                   /\ \A index \in 0..(n - 1) :
                          \E phase \in 0..(PhaseRes - 1) :
                              lfo_update([lfo EXCEPT !.phase = phase], 0).idx
                                  = <<index, index>>

\* A stepped LFO of three candidates at the top of its triangle, where the
\* index is clamped to the last candidate
C30_Witness ==
    /\ last_op.op = "lfo_update"
    /\ last_op.lfo.mode = "STEPPED"
    /\ Len(last_op.lfo.frequencies) = 3
    /\ 2 * ret.phase = PhaseRes
    /\ ret.idx = <<2, 2>>

(***************************************************************************)
(* The last played note                                                    *)
(***************************************************************************)

\* C31: after every VoiceTracker.note_on(K), a first activation or a
\* retrigger, last_played_note is K; note_off and clear leave it unchanged;
\* and get_last_played_pair returns a pair exactly when that key is active.
C31_LastPlayedFollowsNoteOn ==
    [][ /\ last_op'.op = "note_on" => last_played_note' = last_op'.note
        /\ last_op'.op \in {"note_off", "clear"} =>
               last_played_note' = last_played_note
        /\ (get_last_played_pair' # None) <=>
               (last_played_note' \in DOMAIN active_notes') ]_vars

(***************************************************************************)
(* The latching pads of the split mode                                     *)
(***************************************************************************)

\* The pads of the upper half that are mapped to harmonic n
upper_pads(n) ==
    {note \in 0..127 : pad_harmonic(note).upper /\ pad_harmonic(note).n = n}

\* C32: in every reachable state a harmonic n is in toggled_harmonics exactly
\* when the upper-half pad mapped to n has an active VoiceSet, whatever the
\* interleaving of pad presses and releases with panic, the split-mode
\* toggle and the pad/keyboard mode toggle.
C32_LatchedIffSounding ==
    \A n \in 1..64 :
        n \in toggled_harmonics <=>
            \E note \in upper_pads(n) : note \in DOMAIN active_notes

(***************************************************************************)
(* The tail of the f1 interpolation                                        *)
(***************************************************************************)

\* C35: whenever F1Modulator.update() returns false (the value moved by no
\* more than 0.01 Hz), the modulator is stable after the call: its value is
\* within 0.01 Hz of the target, so f1 does not keep moving over further
\* passes without the voices being re-tuned.
C35_UnchangedMeansStable ==
    (last_op.op = "update" /\ ~ret.changed) => is_stable

(***************************************************************************)
(* The atmosphere voices of a key                                          *)
(***************************************************************************)

\* The last event was a note-on of the keyboard mode for a key that has a
\* harmonic, its own or a borrowed one, and the key has its VoiceSet
KeyboardNoteOn ==
    /\ last_op.op = "note_on"
    /\ ~pad_mode_enabled
    /\ last_op.note \notin {PANIC_NOTE, PAD_MODE_TOGGLE_NOTE}
    /\ get_match(last_op.note) # None \/ borrow(last_op.note) # None
    /\ last_op.note \in DOMAIN active_notes

\* Voice i of the pair comes from a match of a key 12, 24, ... semitones
\* above the played key, not above key 108, folded down by as many octaves
FoldedFromAbove(pair, i) ==
    \E j \in 1..10 :
        LET check_note == pair.midi_note + 12 * j
        IN  /\ check_note <= 108
            /\ \E q \in DOMAIN get_all_matches(check_note) :
                   get_all_matches(check_note)[q].harmonic_n = pair.harmonic_ns[i]
            /\ pair.frequencies[i] = (f1_value * pair.harmonic_ns[i]) \div Pow2(j)

\* Voice i of the pair is a natural harmonic: the first match of a key
\* 12, 24, ... semitones above the played key, where it was found
UnfoldedFromAbove(pair, i) ==
    \E j \in 1..10 :
        LET check_note == pair.midi_note + 12 * j
        IN  /\ check_note <= 108
            /\ get_match(check_note) # None
            /\ get_match(check_note).harmonic_n = pair.harmonic_ns[i]
            /\ pair.frequencies[i] = f1_value * pair.harmonic_ns[i]

\* C33: a keyboard note-on builds a voice list of the primary voice followed
\* by at most max_harmonics atmosphere voices (and then the natural
\* harmonics, if that layer is on); every atmosphere voice is a match of a
\* key 12, 24, ... semitones above the played key, never above key 108,
\* folded down by that many octaves; the frequencies of the primary and the
\* atmosphere voices, rounded to 0.01 Hz, are pairwise distinct; with the
\* multi-harmonic mode off there is no atmosphere voice.
C33_AtmosphereVoices ==
    KeyboardNoteOn =>
        LET pair == active_notes[last_op.note]
        IN  /\ Len(pair.frequencies) = Len(pair.harmonic_ns)
            /\ \E m \in 0..max_harmonics :
                 /\ m + 1 <= Len(pair.frequencies)
                 /\ \A i \in 2..(m + 1) : FoldedFromAbove(pair, i)
                 /\ \A i, j \in 1..(m + 1) :
                        i # j => round2(pair.frequencies[i]) # round2(pair.frequencies[j])
                 /\ \A i \in (m + 2)..Len(pair.frequencies) :
                        natural_harmonics_enabled /\ UnfoldedFromAbove(pair, i)
                 /\ ~multi_harmonic_enabled => m = 0

\* A key has just been played with two atmosphere voices behind its primary
C33_Witness ==
    /\ KeyboardNoteOn
    /\ multi_harmonic_enabled /\ ~natural_harmonics_enabled
    /\ Len(active_notes[last_op.note].frequencies) = 3

(***************************************************************************)
(* The pitch offset of a re-tune                                           *)
(***************************************************************************)

RECURSIVE Gcd(_, _)
Gcd(a, b) == IF b = 0 THEN a ELSE Gcd(b, a % b)

\* a / b = c / d, for positive integers
SameRatio(a, b, c, d) ==
    /\ a \div Gcd(a, b) = c \div Gcd(c, d)
    /\ b \div Gcd(a, b) = d \div Gcd(c, d)

\* C34: for every active voice, the pitch offset that a re-tune sends,
\* 12*log2(to / from), equals 12*log2(current f1 / f1 at the note-on of its
\* key), and so is 0 when f1 is what it was at the note-on; for the direct
\* voices and equally for an octave-borrowed primary and for the folded
\* atmosphere voices, whose stored frequency is f1 * n / 2^k.
C34_OffsetFollowsF1 ==
    last_op.op = "tick" =>
        \A i \in DOMAIN Sent("pitch") :
            LET msg == Sent("pitch")[i]
            IN  \E K \in DOMAIN active_notes :
                    /\ \E j \in DOMAIN active_notes[K].voice_ids :
                           active_notes[K].voice_ids[j] = msg.voice_id
                    /\ SameRatio(msg.to, msg.from, f1_value, active_notes[K].original_f1)

(***************************************************************************)
(* Distinct identifiers below capacity                                     *)
(***************************************************************************)

\* C36: whenever the number of active voices is at most max_voices, the
\* identifiers held by the active pairs are pairwise distinct, after any
\* sequence of note_on and note_off (also when other keys are pressed and
\* released many times while one key stays held).
C36_DistinctBelowCapacity ==
    voice_count <= max_voices =>
        \A K1, K2 \in DOMAIN active_notes :
            \A i \in DOMAIN pair_voice_ids(active_notes[K1]),
               j \in DOMAIN pair_voice_ids(active_notes[K2]) :
                (K1 # K2 \/ i # j) =>
                    pair_voice_ids(active_notes[K1])[i] # pair_voice_ids(active_notes[K2])[j]

(***************************************************************************)
(* The settings of the chorus LFOs                                         *)
(***************************************************************************)

\* C38: every live per-key LFO has the engine's current chorus rate and the
\* current vibrato mode (the rate and mode controllers update all live LFOs,
\* a new LFO is created with the current values), and the chorus rate is
\* always within [LFO_RATE_MIN, LFO_RATE_MAX].
C38_LfoSettings ==
    /\ \A K \in DOMAIN note_lfos :
           /\ note_lfos[K].rate = lfo_rate
           /\ note_lfos[K].mode = vibrato_mode
    /\ LFO_RATE_MIN <= lfo_rate /\ lfo_rate <= LFO_RATE_MAX

\* The rate controller has just moved the rate away from its default while a
\* key had its LFO
C38_Witness ==
    /\ note_lfos # EmptyDict
    /\ last_op.op = "lfo_rate_change"
    /\ lfo_rate # DEFAULT_LFO_RATE

(***************************************************************************)
(* The stream of messages, identifier by identifier                        *)
(***************************************************************************)

\* The messages, arriving in order at a synthesizer that holds a note for
\* the identifiers ids, are well-formed: a note-on only for an identifier
\* that holds no note, a note-off or a pitch expression only for one that does
RECURSIVE well_formed(_, _)
well_formed(ids, msgs) ==
    IF msgs = <<>> THEN TRUE
    ELSE LET msg == Head(msgs)
         IN  /\ CASE msg.type = "note_on"       -> msg.voice_id \notin ids
                  [] msg.type = "all_notes_off" -> TRUE
                  [] OTHER                      -> msg.voice_id \in ids
             /\ well_formed(hear(ids, msg), Tail(msgs))

\* C37: the stream of messages is well-formed for every voice identifier: a
\* note-off or a pitch offset is sent for an identifier only after a note-on
\* for it and before the note-off that ends it, and no second note-on is
\* sent for an identifier that is still sounding; across retriggers, layer
\* voices of gain zero, the wraparound of the identifiers, panic and the mode
\* toggles.
C37_StreamWellFormed == [][well_formed(on_ids, emitted')]_vars

(***************************************************************************)
(* Specification of the MpeSender on its own                               *)
(***************************************************************************)

MaxMpeVoice == 16       \* voice identifiers 0 .. MaxMpeVoice reach the sender
MaxMpeOffs  == 2        \* note-offs given to the sender in one run

MpeVoices == 0..MaxMpeVoice

\* The voices that are released and bent: the first, one in the middle, and
\* the last, which never has a channel
MpeTouched == {0, 3, MaxMpeVoice}

\* What the calls of the sender leave alone
MpeFrame ==
    UNCHANGED <<km_vars, vt_vars, hist_vars, running, run_pc, f1_vars, set_vars,
                mode_vars, note_lfos, env_vars>>

\* The sender takes the fields of an effect; the messages sent are observed
ApplyMpe(e) ==
    /\ port_open' = e.port_open
    /\ voice_channels' = e.voice_channels
    /\ available_channels' = e.available
    /\ channel_notes' = e.notes
    /\ ret' = [sent |-> e.sent]

Mpe_open ==
    /\ ~port_open
    /\ ApplyMpe(mpe_open(MpeCur))
    /\ last_op' = [op |-> "mpe_open"]
    /\ UNCHANGED n_mpe_offs
    /\ MpeFrame

Mpe_close ==
    /\ ApplyMpe(mpe_close(MpeCur))
    /\ last_op' = [op |-> "mpe_close"]
    /\ UNCHANGED n_mpe_offs
    /\ MpeFrame

\* The engine sends a note-on for the identifier its tracker has allocated
\* (here the lowest one that has no channel) or again for the first one
Mpe_send_note_on(voice_id, frequency, velocity) ==
    /\ voice_id \in {Min(MpeVoices \ DOMAIN voice_channels), 0}
    /\ ApplyMpe(mpe_send_note_on(MpeCur, voice_id, frequency, velocity))
    /\ last_op' = [op |-> "mpe_note_on", voice_id |-> voice_id]
    /\ UNCHANGED n_mpe_offs
    /\ MpeFrame

Mpe_send_note_off(voice_id, frequency) ==
    /\ n_mpe_offs < MaxMpeOffs
    /\ ApplyMpe(mpe_send_note_off(MpeCur, voice_id, frequency, 0))
    /\ last_op' = [op |-> "mpe_note_off", voice_id |-> voice_id]
    /\ n_mpe_offs' = n_mpe_offs + 1
    /\ MpeFrame

Mpe_send_pitch_expression(voice_id, semitone_offset) ==
    /\ ApplyMpe(mpe_send_pitch_expression(MpeCur, voice_id, semitone_offset))
    /\ last_op' = [op |-> "mpe_pitch_expression", voice_id |-> voice_id]
    /\ UNCHANGED n_mpe_offs
    /\ MpeFrame

Mpe_send_all_notes_off ==
    /\ ApplyMpe(mpe_send_all_notes_off(MpeCur))
    /\ last_op' = [op |-> "mpe_all_notes_off"]
    /\ UNCHANGED n_mpe_offs
    /\ MpeFrame

InitMpe == KM_Init /\ TrackerIdle /\ EngineIdle

NextMpe ==
    \/ Mpe_open
    \/ Mpe_close
    \/ \E voice_id \in MpeVoices : Mpe_send_note_on(voice_id, 440000, 78740)
    \/ \E voice_id \in MpeTouched : Mpe_send_note_off(voice_id, 440000)
    \/ \E voice_id \in MpeTouched : Mpe_send_pitch_expression(voice_id, -890)
    \/ Mpe_send_all_notes_off

SpecMpe == InitMpe /\ [][NextMpe]_vars

\* How many times x occurs in the sequence s
Occurrences(s, x) == Cardinality({i \in DOMAIN s : s[i] = x})

\* Every member channel is either in the pool, once, or assigned to one
\* voice, and nothing else is in the pool or assigned
ChannelsPartitioned ==
    /\ \A c \in Range(MPE_MEMBER_CHANNELS) :
           Occurrences(available_channels, c)
               + Cardinality({v \in DOMAIN voice_channels : voice_channels[v] = c}) = 1
    /\ Range(available_channels) \subseteq Range(MPE_MEMBER_CHANNELS)
    /\ \A v \in DOMAIN voice_channels : voice_channels[v] \in Range(MPE_MEMBER_CHANNELS)

\* C39: in every reachable state of an open MpeSender the 15 member channels
\* are partitioned: each is in the pool of available channels exactly once or
\* assigned to exactly one voice identifier, so at most 15 voices hold a
\* channel; a note-on that finds the pool empty is dropped without changing
\* any assignment; note-off and all-notes-off return channels to the pool.
\* (The sender starts with its port closed, so every state in which the port
\* is open is the state after a step.)
C39_ChannelPartition ==
    [][ /\ port_open' =>
             /\ ChannelsPartitioned'
             /\ Cardinality(DOMAIN voice_channels') <= Len(MPE_MEMBER_CHANNELS)
        /\ ( /\ last_op'.op = "mpe_note_on"
             /\ port_open
             /\ available_channels = <<>>
             /\ last_op'.voice_id \notin DOMAIN voice_channels )
           => /\ UNCHANGED <<voice_channels, available_channels, channel_notes>>
              /\ ret'.sent = <<>>
        /\ ( /\ last_op'.op = "mpe_note_off"
             /\ port_open
             /\ last_op'.voice_id \in DOMAIN voice_channels )
           => /\ last_op'.voice_id \notin DOMAIN voice_channels'
              /\ voice_channels[last_op'.voice_id] \in Range(available_channels')
        /\ (last_op'.op = "mpe_all_notes_off" /\ port_open)
           => /\ voice_channels' = EmptyDict
              /\ Range(available_channels') = Range(MPE_MEMBER_CHANNELS)
      ]_vars

\* All 15 channels are taken and a note-on for a further voice was dropped
C39_Witness ==
    /\ port_open
    /\ last_op.op = "mpe_note_on"
    /\ available_channels = <<>>
    /\ Cardinality(DOMAIN voice_channels) = Len(MPE_MEMBER_CHANNELS)
    /\ last_op.voice_id \notin DOMAIN voice_channels
    /\ ret.sent = <<>>
====
